---- MODULE Spec2Model ----
(***************************************************************************)
(* Credential pipeline of game-compare-0x (src/rust/scripts):              *)
(*   - xbox_tokens_device_code.py: xbl_user_authenticate, the candidate    *)
(*     ticket enumeration and the platform-user exchange search;           *)
(*   - ms_oauth_cache.py: device_code_login, the device-code poll loop.    *)
(* Strings are sequences of code points (37 is "%", 47 is "/", 61 is "=",  *)
(* 97 is "a", 100 is "d", 116 is "t").                                     *)
(***************************************************************************)
EXTENDS Integers, Sequences, FiniteSets, TLC

VARIABLES
    \* xbl_user_authenticate: arguments, locals, position, outcome
    xDecoded, xRaw, xpc, tickets, seen, uniq, rpIdx, hdrIdx, candIdx,
    attempts, xResult, digest,
    \* the exchange endpoint (mock) and the observation of the traffic
    failStatus, sent, resps, inflight, calls, firstUniq,
    \* device_code_login: position, clock, locals, outcome, and the cache file
    lpc, now, interval, deadline, lResult, cache,
    \* the exception device_code_login ended with; the cache file as it was
    \* when the call started
    lError, cache0,
    \* the interval and expires_in values the device-code endpoint answers with
    dcIntervals, dcLifetimes,
    \* the observation of the login attempt: time the deadline was set, the
    \* device-code response's interval and expires_in, the sleeps taken, the
    \* poll responses received, time the last poll was sent and time it took
    t0, interval0, expiresIn, sleeps, lresps, lastPollAt, lastLatency,
    \* msal.py: position, interval, deadline; the device-code response's
    \* interval, the poll responses received and the waits taken after them
    mpc, mInterval, mDeadline, mInterval0, mResps, mWaits,
    \* get_token: position, the time of the call, the loaded token, result and
    \* provenance
    gpc, gStart, gTok, gResult, gMode,
    \* refresh: position, the token passed in, the result, the exception, the
    \* requests sent, the payload of the last 200; the token passed to the
    \* first refresh and whether every 200 so far omitted refresh_token
    rpc, rTok, rResult, rError, refreshCount, rPayload, rFirst, rOmitted,
    \* the cache round trip: position, the TokenSet saved, the text of the
    \* file, what load_cache returned
    cpc, cTok, cFile, cLoaded,
    \* _write_secure on the file system: the inode of each path, the content
    \* and mode of each inode, the mode of the directory, the umask; for each
    \* running save_cache its position, its token, its open file and the
    \* cache file as it was when it started; the saves started, whether one
    \* has completed, and the processes that save
    fsPath, inodes, fsDir, umask, wpc, wTok, wFd, wBefore, saves, savedOnce,
    writers,
    \* the scripts that end in the session-token stage: the script that runs
    \* and its position, the environment it reads, the platform-user requests
    \* get_xsts.py sent and the response to the last one, the session-token
    \* requests sent and the response to the last one, the exception or exit
    \* the script ended with, what it printed, and the output it produced
    prog, spc, sEnv, sXblReqs, sXbl, sReqs, sResp, sError, sPrinted, sOut

xvars == <<xDecoded, xRaw, xpc, tickets, seen, uniq, rpIdx, hdrIdx, candIdx,
           attempts, xResult, digest, failStatus, sent, resps, inflight,
           calls, firstUniq>>

lvars == <<lpc, now, interval, deadline, lResult, cache, lError, cache0,
           dcIntervals, dcLifetimes, t0, interval0,
           expiresIn, sleeps, lresps, lastPollAt, lastLatency>>

mvars == <<mpc, mInterval, mDeadline, mInterval0, mResps, mWaits>>

gvars == <<gpc, gStart, gTok, gResult, gMode, rpc, rTok, rResult, rError, refreshCount,
           rPayload, rFirst, rOmitted>>

cvars == <<cpc, cTok, cFile, cLoaded>>

\* the state outside the pipeline stages modelled first
fvars == <<fsPath, inodes, fsDir, umask, wpc, wTok, wFd, wBefore, saves,
           savedOnce, writers>>

svars == <<prog, spc, sEnv, sXblReqs, sXbl, sReqs, sResp, sError, sPrinted,
           sOut>>

ovars == <<cvars, fvars, svars>>

vars == <<xvars, lvars, mvars, gvars, ovars>>

----------------------------------------------------------------------------
\* Bounds of the model

\* longest token string drawn as an input
MaxLen == 3
\* invocations of xbl_user_authenticate observed in one behaviour
MaxCalls == 2
\* largest poll interval (seconds) a device-code response carries
MaxInterval == 5
\* largest expires_in (seconds) a device-code response carries
MaxExpires == 20
\* longest time (seconds) a token-endpoint request takes to be answered
MaxLatency == 2
MaxRefreshes == 3

----------------------------------------------------------------------------
\* Strings

\* Python None where a str is expected (no code point is negative)
None == <<-1>>

\* bool(x) of an Optional[str]
Truthy(x) == x # None /\ x # <<>>

\* the characters the input tokens are drawn from: "%", "2", "a"; they spell a
\* stray "%", the escapes %22 and %2a of ASCII characters and the escapes %a2
\* and %aa of lone high bytes
Alphabet == {37, 50, 97}

RECURSIVE StringsOfLen(_)
StringsOfLen(n) ==
    IF n = 0 THEN {<<>>}
    ELSE {<<c>> \o s : c \in Alphabet, s \in StringsOfLen(n - 1)}

Strings == UNION {StringsOfLen(n) : n \in 0..MaxLen}

IsHex(c) == c \in (48..57) \cup (65..70) \cup (97..102)

HexVal(c) ==
    IF c \in 48..57 THEN c - 48
    ELSE IF c \in 65..70 THEN c - 55
    ELSE c - 87

\* "%02X" digit
HexDigit(n) == IF n < 10 THEN 48 + n ELSE 55 + n

\* one escaped byte decoded as UTF-8 with errors="replace": an ASCII byte is its
\* character, a lone byte >= 0x80 is U+FFFD (the inputs hold no multi-byte run)
DecodeByte(b) == IF b < 128 THEN b ELSE 65533

\* urllib.parse.unquote: every %XX with two hex digits becomes its byte, a "%"
\* not followed by two hex digits stays, "+" stays
RECURSIVE unquote(_)
unquote(s) ==
    IF s = <<>> THEN <<>>
    ELSE IF Head(s) = 37 /\ Len(s) >= 3 /\ IsHex(s[2]) /\ IsHex(s[3])
         THEN <<DecodeByte(16 * HexVal(s[2]) + HexVal(s[3]))>>
              \o unquote(SubSeq(s, 4, Len(s)))
         ELSE <<Head(s)>> \o unquote(Tail(s))

\* the UTF-8 bytes of a code point below 65536
Utf8(c) ==
    IF c < 128 THEN <<c>>
    ELSE IF c < 2048 THEN <<192 + (c \div 64), 128 + (c % 64)>>
    ELSE <<224 + (c \div 4096), 128 + ((c \div 64) % 64), 128 + (c % 64)>>

\* urllib's always-safe characters: A-Z a-z 0-9 "_" "." "-" "~"
Unreserved == (65..90) \cup (97..122) \cup (48..57) \cup {95, 46, 45, 126}

PctByte(b) == <<37, HexDigit(b \div 16), HexDigit(b % 16)>>

RECURSIVE PctBytes(_)
PctBytes(bs) == IF bs = <<>> THEN <<>> ELSE PctByte(Head(bs)) \o PctBytes(Tail(bs))

\* pct_encode: quote(s, safe="")
RECURSIVE pct_encode(_)
pct_encode(s) ==
    IF s = <<>> THEN <<>>
    ELSE (IF Head(s) \in Unreserved THEN <<Head(s)>> ELSE PctBytes(Utf8(Head(s))))
         \o pct_encode(Tail(s))

----------------------------------------------------------------------------
\* xbl_user_authenticate: the candidate tickets

\* ms_access_token_raw or ms_access_token
raw_fragment(dec, raw) == IF Truthy(raw) THEN raw ELSE dec

raw_fragment_decoded(dec, raw) == unquote(raw_fragment(dec, raw))

\* add(label, ticket): an empty ticket is skipped
add(ts, label, ticket) ==
    IF ~Truthy(ticket) THEN ts
    ELSE Append(ts, [label |-> label, ticket |-> ticket])

\* the six plain and fully percent-encoded forms, in the order they are added
PlainForms(dec, raw) ==
    << [label |-> "decoded",             base |-> dec],
       [label |-> "rawfrag",             base |-> raw_fragment(dec, raw)],
       [label |-> "rawfrag_decoded",     base |-> raw_fragment_decoded(dec, raw)],
       [label |-> "decoded_enc",         base |-> pct_encode(dec)],
       [label |-> "rawfrag_enc",         base |-> pct_encode(raw_fragment(dec, raw))],
       [label |-> "rawfrag_decoded_enc", base |-> pct_encode(raw_fragment_decoded(dec, raw))] >>

\* the bases the "Prefixed variants" loop walks
PrefixBases(dec, raw) ==
    << [label |-> "decoded",             base |-> dec],
       [label |-> "rawfrag",             base |-> raw_fragment(dec, raw)],
       [label |-> "rawfrag_decoded",     base |-> raw_fragment_decoded(dec, raw)],
       [label |-> "decoded_enc",         base |-> pct_encode(dec)],
       [label |-> "rawfrag_enc",         base |-> pct_encode(raw_fragment(dec, raw))],
       [label |-> "rawfrag_decoded_enc", base |-> pct_encode(raw_fragment_decoded(dec, raw))] >>

RECURSIVE AddPlain(_, _)
AddPlain(ts, forms) ==
    IF forms = <<>> THEN ts
    ELSE AddPlain(add(ts, Head(forms).label, Head(forms).base), Tail(forms))

\* for base_label, base in [...]: add("d=" + label, "d=" + base); add("t=" ...)
RECURSIVE AddPrefixed(_, _)
AddPrefixed(ts, bases) ==
    IF bases = <<>> THEN ts
    ELSE AddPrefixed(
             add(add(ts, "d=" \o Head(bases).label, <<100, 61>> \o Head(bases).base),
                 "t=" \o Head(bases).label, <<116, 61>> \o Head(bases).base),
             Tail(bases))

\* the prefixed variants added ahead of the plain ones
TicketsPrefixedFirst(dec, raw) ==
    AddPlain(AddPrefixed(<<>>, PrefixBases(dec, raw)), PlainForms(dec, raw))

\* the priority list `tickets` before de-duplication
Tickets(dec, raw) == AddPrefixed(AddPlain(<<>>, PlainForms(dec, raw)), PrefixBases(dec, raw))

\* a de-duplication that keeps every entry
RECURSIVE DedupKeepAll(_, _, _, _)
DedupKeepAll(ts, i, sn, un) ==
    IF i > Len(ts) THEN [seen |-> sn, uniq |-> un]
    ELSE DedupKeepAll(ts, i + 1, sn \cup {ts[i].ticket}, Append(un, ts[i]))

\* "De-dup while preserving order": the loop over tickets from entry i on, with
\* the seen set sn and the kept entries un
RECURSIVE DedupLoop(_, _, _, _)
DedupLoop(ts, i, sn, un) ==
    IF i > Len(ts) THEN [seen |-> sn, uniq |-> un]
    ELSE IF ts[i].ticket \in sn THEN DedupLoop(ts, i + 1, sn, un)
    ELSE DedupLoop(ts, i + 1, sn \cup {ts[i].ticket}, Append(un, ts[i]))

\* a seen set left over from the previous invocation
StaleSeen == seen

\* seen = set()
FreshSeen == {}

----------------------------------------------------------------------------
\* xbl_user_authenticate: the exchange search

relying_parties == <<"http://auth.xboxlive.com", "https://auth.xboxlive.com">>

\* only the configuration with the version header
OnlyContractHeader == <<TRUE>>

\* for with_contract in (True, False)
header_configs == <<TRUE, FALSE>>

\* nothing returned (yet)
NoResult == <<>>

\* a loop that never takes the early return
NeverSuccess(status) == FALSE

\* r.status_code == 200
IsSuccess(status) == status = 200

\* the statuses the mock endpoint rejects with
FailStatuses == {401, 403}

\* the nested for loops have run out
LoopDone == rpIdx > Len(relying_parties) \/ uniq = <<>>

\* the request attempt(t, relying_party, with_contract_header) of the current
\* loop position
CurrentRequest ==
    [ rp       |-> relying_parties[rpIdx],
      contract |-> header_configs[hdrIdx],
      lbl      |-> uniq[candIdx].label,
      ticket   |-> uniq[candIdx].ticket ]

\* loops nested the other way round: relying parties innermost
AdvanceRelyingPartyInnermost ==
    IF rpIdx < Len(relying_parties) THEN <<rpIdx + 1, hdrIdx, candIdx>>
    ELSE IF hdrIdx < Len(header_configs) THEN <<1, hdrIdx + 1, candIdx>>
    ELSE IF candIdx < Len(uniq) THEN <<1, 1, candIdx + 1>>
    ELSE <<Len(relying_parties) + 1, 1, 1>>

\* the loop position after the current one: candidates innermost, header
\* configurations in the middle, relying parties outermost
Advance ==
    IF candIdx < Len(uniq) THEN <<rpIdx, hdrIdx, candIdx + 1>>
    ELSE IF hdrIdx < Len(header_configs) THEN <<rpIdx, hdrIdx + 1, 1>>
    ELSE <<rpIdx + 1, 1, 1>>

\* the whole list instead of a slice
AllAttempts(as) == as

\* attempts[:12]
FirstAttempts(as) == SubSeq(as, 1, IF Len(as) < 12 THEN Len(as) ELSE 12)

\* the entries of the failure's summary: label and status of attempts[:12]
Summary(as) == FirstAttempts(as)

\* lines 241-302: build tickets, de-duplicate, start the search
XblEncode ==
    /\ xpc = "call"
    /\ tickets' = Tickets(xDecoded, xRaw)
    /\ LET d == DedupLoop(tickets', 1, FreshSeen, <<>>)
       IN  /\ seen' = d.seen
           /\ uniq' = d.uniq
           /\ firstUniq' = IF calls = 0 THEN d.uniq ELSE firstUniq
    /\ attempts' = <<>>
    /\ rpIdx' = 1 /\ hdrIdx' = 1 /\ candIdx' = 1
    /\ calls' = calls + 1
    /\ xpc' = "loop"
    /\ UNCHANGED <<xDecoded, xRaw, xResult, digest, failStatus, sent, resps, inflight>>
    /\ UNCHANGED <<lvars, mvars, gvars, ovars>>

\* line 307, the call: requests.post is issued
XblSend ==
    /\ xpc = "loop"
    /\ ~LoopDone
    /\ sent' = Append(sent, CurrentRequest)
    /\ inflight' = inflight + 1
    /\ xpc' = "await"
    /\ UNCHANGED <<xDecoded, xRaw, tickets, seen, uniq, rpIdx, hdrIdx, candIdx,
                   attempts, xResult, digest, failStatus, resps, calls, firstUniq>>
    /\ UNCHANGED <<lvars, mvars, gvars, ovars>>

\* lines 307-310: the response arrives; 200 returns its body, anything else is
\* recorded and the loops go on
XblRecv ==
    /\ xpc = "await"
    /\ \E status \in {200, failStatus} :
         LET resp == [status |-> status, body |-> <<"body", Len(sent)>>]
         IN  /\ resps' = Append(resps, resp)
             /\ inflight' = inflight - 1
             /\ IF IsSuccess(resp.status)
                THEN /\ xResult' = resp.body
                     /\ xpc' = "returned"
                     /\ UNCHANGED <<attempts, rpIdx, hdrIdx, candIdx>>
                ELSE /\ attempts' = Append(attempts,
                            [ lbl |-> CurrentRequest.lbl, rp |-> CurrentRequest.rp,
                              contract |-> CurrentRequest.contract,
                              status |-> resp.status ])
                     /\ rpIdx' = Advance[1] /\ hdrIdx' = Advance[2] /\ candIdx' = Advance[3]
                     /\ xpc' = "loop"
                     /\ UNCHANGED xResult
    /\ UNCHANGED <<xDecoded, xRaw, tickets, seen, uniq, digest, failStatus, sent,
                   calls, firstUniq>>
    /\ UNCHANGED <<lvars, mvars, gvars, ovars>>

\* lines 312-318: every combination failed; raise with the summary
XblExhausted ==
    /\ xpc = "loop"
    /\ LoopDone
    /\ digest' = Summary(attempts)
    /\ xpc' = "raised"
    /\ UNCHANGED <<xDecoded, xRaw, tickets, seen, uniq, rpIdx, hdrIdx, candIdx,
                   attempts, xResult, failStatus, sent, resps, inflight, calls,
                   firstUniq>>
    /\ UNCHANGED <<lvars, mvars, gvars, ovars>>

\* the function is invoked once more with the same arguments; the old frame's
\* locals are dead until the new invocation assigns them
XblAgain ==
    /\ xpc \in {"returned", "raised"}
    /\ calls < MaxCalls
    /\ xpc' = "call"
    /\ xResult' = NoResult
    /\ digest' = <<>>
    /\ sent' = <<>>
    /\ resps' = <<>>
    /\ UNCHANGED <<xDecoded, xRaw, tickets, seen, uniq, rpIdx, hdrIdx, candIdx,
                   attempts, failStatus, inflight, calls, firstUniq>>
    /\ UNCHANGED <<lvars, mvars, gvars, ovars>>

----------------------------------------------------------------------------
\* ms_oauth_cache.py: TokenSet, the cache file, device_code_login

\* a JSON field that is absent or null (Python None)
Null == "null"

\* no cache file at CACHE_PATH
NoCache == [exists |-> FALSE]

\* the token payloads the token endpoint answers a 200 with
TokenPayloads ==
    { [access_token |-> "AT1", refresh_token |-> rt, id_token |-> "ID1",
       expires_in |-> e, scope |-> "openid profile offline_access",
       token_type |-> "Bearer"] : rt \in {"RT1", Null}, e \in {30, 3600} }

\* a TokenSet whose expires_at is the bare duration of the payload
NewTokenSetDuration(t, at) ==
    [ access_token  |-> t.access_token,
      refresh_token |-> t.refresh_token,
      id_token      |-> t.id_token,
      expires_at    |-> t.expires_in,
      scope         |-> t.scope,
      token_type    |-> t.token_type ]

\* TokenSet(...) built from a token payload t at time `at`
NewTokenSet(t, at) ==
    [ access_token  |-> t.access_token,
      refresh_token |-> t.refresh_token,
      id_token      |-> t.id_token,
      expires_at    |-> at + t.expires_in,
      scope         |-> t.scope,
      token_type    |-> t.token_type ]

\* d.get(k): the value of key k of a JSON object, None when the key is absent
Get(d, k) == IF k \in DOMAIN d THEN d[k] ELSE Null

\* an expires_at that is None or absent
NoExpiry == -1

\* TokenSet.to_json: the six fields as a JSON object
to_json(tok) ==
    [ access_token  |-> tok.access_token,
      refresh_token |-> tok.refresh_token,
      id_token      |-> tok.id_token,
      expires_at    |-> tok.expires_at,
      scope         |-> tok.scope,
      token_type    |-> tok.token_type ]

\* TokenSet.from_json: every field read with d.get
from_json(d) ==
    [ access_token  |-> Get(d, "access_token"),
      refresh_token |-> Get(d, "refresh_token"),
      id_token      |-> Get(d, "id_token"),
      expires_at    |-> IF "expires_at" \in DOMAIN d THEN d.expires_at ELSE NoExpiry,
      scope         |-> Get(d, "scope"),
      token_type    |-> Get(d, "token_type") ]

\* load_cache() returning None
NoToken == [none |-> TRUE]

\* a file at CACHE_PATH that json.loads or from_json raises on
GarbledCache == [exists |-> TRUE, garbled |-> TRUE]

\* load_cache(): None without a file or when reading it raises, else the
\* TokenSet of the JSON object in the file
load_cache(c) ==
    IF ~c.exists THEN NoToken
    ELSE IF "json" \notin DOMAIN c THEN NoToken
    ELSE from_json(c.json)

\* a save that leaves the file as it is
SaveSkipped(tok) == cache

\* save_cache(tok): the file at CACHE_PATH now holds tok.to_json()
save_cache(tok) == [exists |-> TRUE, json |-> to_json(tok)]

\* _write_secure either replaces the file or raises before the replace
WriteOutcomes == {"written", "raised"}

\* no exception
NoError == [kind |-> "none"]

\* a token cached by an earlier run
OldToken ==
    [ access_token |-> "AT0", refresh_token |-> "RT0", id_token |-> "ID0",
      expires_at |-> 0, scope |-> "openid profile offline_access",
      token_type |-> "Bearer" ]

\* the cache file an earlier run left
OldCache == [exists |-> TRUE, json |-> to_json(OldToken)]

\* a poll answered with 200 or with slow_down taken as the token response
PollOkOrSlowDown(ans) == ans \in {"ok", "slow_down"}

\* if tr.status_code == 200
PollOk(ans) == ans = "ok"

\* only authorization_pending keeps the flow polling
OnlyPendingTransient == {"authorization_pending"}

\* every error code keeps the flow polling
AllErrorsTransient == {"authorization_pending", "slow_down", "access_denied"}

\* the error codes that keep the flow polling
TransientErrors == {"authorization_pending", "slow_down"}

\* what the token endpoint answers a poll with: a 200, or an error code
PollAnswers == {"ok", "authorization_pending", "slow_down", "access_denied"}

\* a slow_down that leaves the interval as it was
AfterSlowDownUnchanged(iv) == iv

\* interval += 5
AfterSlowDown(iv) == iv + 5

\* a loop test made against the deadline plus one more interval
LoopTestLate(t, dl) == t < dl + interval

\* while time.time() < deadline
LoopTest(t, dl) == t < dl

\* lines 137-170: the device-code request; a non-200 raises, a 200 gives the
\* interval and the deadline
DeviceCodeRequest ==
    /\ lpc = "start"
    /\ \E status \in {200, 400}, lat \in 0..MaxLatency :
         /\ now' = now + lat
         /\ IF status # 200
            THEN /\ lpc' = "dc_failed"
                 /\ lError' = [kind |-> "RuntimeError", body |-> [status |-> status]]
                 /\ UNCHANGED <<interval, deadline, t0, interval0, expiresIn>>
            ELSE \E iv \in dcIntervals, ex \in dcLifetimes :
                 /\ interval' = iv
                 /\ deadline' = now' + ex
                 /\ t0' = now'
                 /\ interval0' = iv
                 /\ expiresIn' = ex
                 /\ lpc' = "check"
                 /\ UNCHANGED lError
    /\ UNCHANGED <<lResult, cache, cache0, sleeps, lresps, lastPollAt, lastLatency,
                   dcIntervals, dcLifetimes>>
    /\ UNCHANGED <<xvars, mvars, gvars, ovars>>

\* lines 172 and 210: the loop test; past the deadline the TimeoutError is raised
LoginCheck ==
    /\ lpc = "check"
    /\ lpc' = IF LoopTest(now, deadline) THEN "sleep" ELSE "expired"
    /\ lError' = IF LoopTest(now, deadline) THEN lError
                 ELSE [kind |-> "TimeoutError"]
    /\ UNCHANGED <<now, interval, deadline, lResult, cache, cache0, t0, interval0,
                   dcIntervals, dcLifetimes,
                   expiresIn, sleeps, lresps, lastPollAt, lastLatency>>
    /\ UNCHANGED <<xvars, mvars, gvars, ovars>>

\* lines 173-184: sleep for the interval, then send the poll
LoginSleepPoll ==
    /\ lpc = "sleep"
    /\ now' = now + interval
    /\ sleeps' = Append(sleeps, interval)
    /\ lastPollAt' = now'
    /\ lpc' = "await"
    /\ UNCHANGED <<interval, deadline, lResult, cache, lError, cache0, t0,
                   interval0, expiresIn, lresps, lastLatency, dcIntervals,
                   dcLifetimes>>
    /\ UNCHANGED <<xvars, mvars, gvars, ovars>>

\* lines 176-208: the poll is answered after some time; a 200 builds the
\* TokenSet, saves it and returns it; authorization_pending and slow_down go
\* back to the loop test, slow_down with a longer interval; any other error
\* raises; a save that raises ends the call with that error
LoginPollAnswer ==
    /\ lpc = "await"
    /\ \E ans \in PollAnswers, lat \in 0..MaxLatency :
         /\ now' = now + lat
         /\ lastLatency' = lat
         /\ lresps' = Append(lresps, ans)
         /\ IF PollOk(ans)
            THEN \E t \in TokenPayloads, w \in WriteOutcomes :
                 IF w = "written"
                 THEN /\ cache' = save_cache(NewTokenSet(t, now'))
                      /\ lResult' = NewTokenSet(t, now')
                      /\ lpc' = "authorized"
                      /\ UNCHANGED <<interval, lError>>
                 ELSE /\ lError' = [kind |-> "OSError"]
                      /\ lpc' = "save_failed"
                      /\ UNCHANGED <<interval, lResult, cache>>
            ELSE IF ans \in TransientErrors
            THEN /\ interval' = IF ans = "slow_down" THEN AfterSlowDown(interval)
                                ELSE interval
                 /\ lpc' = "check"
                 /\ UNCHANGED <<lResult, cache, lError>>
            ELSE /\ lError' = [kind |-> "RuntimeError", body |-> [error |-> ans]]
                 /\ lpc' = "denied"
                 /\ UNCHANGED <<interval, lResult, cache>>
    /\ UNCHANGED <<cache0, deadline, t0, interval0, expiresIn, sleeps, lastPollAt,
                   dcIntervals, dcLifetimes>>
    /\ UNCHANGED <<xvars, mvars, gvars, ovars>>

\* the locals of device_code_login before it runs
LoginLocals ==
    /\ interval = 0 /\ deadline = 0
    /\ lResult = NoToken
    /\ lError = NoError
    /\ cache0 = cache
    /\ t0 = 0 /\ interval0 = 0 /\ expiresIn = 0
    /\ sleeps = <<>> /\ lresps = <<>>
    /\ lastPollAt = 0 /\ lastLatency = 0

LoginIdle ==
    /\ lpc = "start"
    /\ now = 0
    /\ dcIntervals = 1..MaxInterval
    /\ dcLifetimes = 0..MaxExpires
    /\ LoginLocals

NextLogin == DeviceCodeRequest \/ LoginCheck \/ LoginSleepPoll \/ LoginPollAnswer

----------------------------------------------------------------------------
\* ms_oauth_cache.py: is_access_token_valid, refresh, get_token

\* a truth test that takes the empty string for a value
PresentNonNull(v) == v # Null

\* the truthiness of an Optional[str]
Present(v) == v \notin {Null, ""}

\* a or b
Or(a, b) == IF Present(a) THEN a ELSE b

\* skew_seconds: int = 60
skew_seconds == 60

\* a validity test that rejects every token
NeverValid(tok, t) == FALSE

\* a validity test that looks at the expiry only
ValidByTimeOnly(tok, t) == t + skew_seconds < tok.expires_at

\* is_access_token_valid(tok) at time t
is_access_token_valid(tok, t) ==
    IF ~Present(tok.access_token) \/ tok.expires_at \in {0, NoExpiry} THEN FALSE
    ELSE t + skew_seconds < tok.expires_at

\* an expires_at that int() raises on: a JSON string that is no number
BadExpiry == -2

\* line 132: int(tok.expires_at) raises
ValidityRaises(tok) == Present(tok.access_token) /\ tok.expires_at = BadExpiry

\* a get_token that tries the refresh before it looks at the validity
GetTokenRouteRefreshFirst(tok, t) ==
    IF tok # NoToken /\ Present(tok.refresh_token) THEN "refresh"
    ELSE IF tok # NoToken /\ is_access_token_valid(tok, t) THEN "cached_access"
    ELSE "device_login"

\* get_token's decisions on the loaded token: lines 260, 263 and 269; an
\* exception of is_access_token_valid leaves get_token
GetTokenRoute(tok, t) ==
    IF tok # NoToken /\ ValidityRaises(tok) THEN "raise"
    ELSE IF tok # NoToken /\ is_access_token_valid(tok, t) THEN "cached_access"
    ELSE IF tok # NoToken /\ Present(tok.refresh_token) THEN "refresh"
    ELSE "device_login"

\* the token payloads the token endpoint answers a refresh with
RefreshPayloads ==
    { [access_token |-> "AT2", refresh_token |-> rt, id_token |-> id,
       expires_in |-> e, scope |-> sc, token_type |-> tt] :
         rt \in {"RT2", Null}, id \in {"ID2", Null}, e \in {30, 3600},
         sc \in {"openid", Null}, tt \in {"bearer", Null} }

\* a refresh that takes only the provider's fields
RefreshedTokenSetNoFallback(t, tok, at) == NewTokenSet(t, at)

\* a refresh that keeps the prior token's fields when it has them
RefreshedTokenSetKeepOld(t, tok, at) ==
    [ access_token  |-> t.access_token,
      refresh_token |-> Or(tok.refresh_token, t.refresh_token),
      id_token      |-> Or(tok.id_token, t.id_token),
      expires_at    |-> at + t.expires_in,
      scope         |-> Or(tok.scope, t.scope),
      token_type    |-> Or(tok.token_type, t.token_type) ]

\* new_tok of refresh(tok), built from the payload t at time `at`
RefreshedTokenSet(t, tok, at) ==
    [ access_token  |-> t.access_token,
      refresh_token |-> Or(t.refresh_token, tok.refresh_token),
      id_token      |-> Or(t.id_token, tok.id_token),
      expires_at    |-> at + t.expires_in,
      scope         |-> Or(t.scope, tok.scope),
      token_type    |-> Or(t.token_type, tok.token_type) ]

\* the locals of device_code_login
loginLocals == <<interval, deadline, lResult, lError, t0, interval0, expiresIn,
                 sleeps, lresps, lastPollAt, lastLatency>>

\* no payload received
NoPayload == [none |-> TRUE]

\* lines 213-231: refresh(tok) raises without a refresh token, else it sends
\* the refresh request
RefreshCall ==
    /\ rpc = "start"
    /\ IF ~Present(rTok.refresh_token)
       THEN /\ rpc' = "raised"
            /\ rError' = "no_refresh_token"
            /\ UNCHANGED refreshCount
       ELSE /\ rpc' = "await"
            /\ refreshCount' = refreshCount + 1
            /\ UNCHANGED rError
    /\ UNCHANGED <<gpc, gStart, gTok, gResult, gMode, rTok, rResult, rPayload, rFirst,
                   rOmitted>>
    /\ UNCHANGED <<lvars, xvars, mvars, ovars>>

\* a refresh that sends its request again after a non-200
OnRefreshErrorRetry == "start"

\* lines 233-238: a non-200 raises RuntimeError and refresh is over
OnRefreshError == "raised"

\* lines 233-253: the refresh request is answered; a non-200 raises; a 200
\* builds new_tok, saves it and returns it, and a save that fails raises
RefreshReturn ==
    /\ rpc = "await"
    /\ \E status \in {200, 400}, lat \in 0..MaxLatency :
         /\ now' = now + lat
         /\ IF status # 200
            THEN /\ rpc' = OnRefreshError
                 /\ rError' = "refresh_failed"
                 /\ UNCHANGED <<cache, rResult, rPayload, rOmitted>>
            ELSE \E t \in RefreshPayloads, w \in WriteOutcomes :
                 /\ rPayload' = t
                 /\ IF w = "written"
                    THEN /\ cache' = save_cache(RefreshedTokenSet(t, rTok, now'))
                         /\ rResult' = RefreshedTokenSet(t, rTok, now')
                         /\ rpc' = "returned"
                         /\ rOmitted' = (rOmitted /\ t.refresh_token = Null)
                         /\ UNCHANGED rError
                    ELSE /\ rpc' = "raised"
                         /\ rError' = "save_raised"
                         /\ UNCHANGED <<cache, rResult, rOmitted>>
    /\ UNCHANGED <<gpc, gStart, gTok, gResult, gMode, rTok, refreshCount, rFirst>>
    /\ UNCHANGED <<lpc, cache0, dcIntervals, dcLifetimes, loginLocals>>
    /\ UNCHANGED <<xvars, mvars, ovars>>

\* a later run loads the cached token and refreshes it again
RefreshAgain ==
    /\ rpc = "returned"
    /\ refreshCount < MaxRefreshes
    /\ rpc' = "start"
    /\ rTok' = load_cache(cache)
    /\ UNCHANGED <<gpc, gStart, gTok, gResult, gMode, rResult, rError, refreshCount,
                   rPayload, rFirst, rOmitted>>
    /\ UNCHANGED <<lvars, xvars, mvars, ovars>>

\* lines 258-269: load the cache and decide; a valid token is returned, a
\* token with a refresh token goes to refresh(tok), anything else to
\* device_code_login()
GetTokenStart ==
    /\ gpc = "start"
    /\ gStart' = now
    /\ gTok' = load_cache(cache)
    /\ LET route == GetTokenRoute(load_cache(cache), now)
       IN  IF route = "cached_access"
           THEN /\ gpc' = "returned"
                /\ gResult' = load_cache(cache)
                /\ gMode' = "cached_access"
                /\ UNCHANGED <<lpc, rpc, rTok, rFirst>>
           ELSE IF route = "raise"
           THEN /\ gpc' = "raised"
                /\ UNCHANGED <<gResult, gMode, lpc, rpc, rTok, rFirst>>
           ELSE IF route = "refresh"
           THEN /\ gpc' = "refreshing"
                /\ rpc' = "start"
                /\ rTok' = load_cache(cache)
                /\ rFirst' = load_cache(cache)
                /\ UNCHANGED <<gResult, gMode, lpc>>
           ELSE /\ gpc' = "login"
                /\ lpc' = "start"
                /\ UNCHANGED <<gResult, gMode, rpc, rTok, rFirst>>
    /\ UNCHANGED <<rResult, rError, refreshCount, rPayload, rOmitted>>
    /\ UNCHANGED <<now, cache, cache0, dcIntervals, dcLifetimes, loginLocals>>
    /\ UNCHANGED <<xvars, mvars, ovars>>

\* lines 264-267: refresh(tok) has ended; its TokenSet is returned with
\* "refreshed", its exception is logged and the device login starts
GetTokenRefreshDone ==
    /\ gpc = "refreshing"
    /\ rpc \in {"returned", "raised"}
    /\ IF rpc = "returned"
       THEN /\ gpc' = "returned"
            /\ gResult' = rResult
            /\ gMode' = "refreshed"
            /\ UNCHANGED lpc
       ELSE /\ gpc' = "login"
            /\ lpc' = "start"
            /\ UNCHANGED <<gResult, gMode>>
    /\ UNCHANGED <<gStart, gTok, rpc, rTok, rResult, rError, refreshCount, rPayload,
                   rFirst, rOmitted>>
    /\ UNCHANGED <<now, cache, cache0, dcIntervals, dcLifetimes, loginLocals>>
    /\ UNCHANGED <<xvars, mvars, ovars>>

\* line 269: device_code_login has ended; its TokenSet is returned with
\* "device_login", its exception leaves get_token
GetTokenLoginDone ==
    /\ gpc = "login"
    /\ lpc \in {"authorized", "denied", "expired", "dc_failed", "save_failed"}
    /\ IF lpc = "authorized"
       THEN /\ gpc' = "returned"
            /\ gResult' = lResult
            /\ gMode' = "device_login"
       ELSE /\ gpc' = "raised"
            /\ UNCHANGED <<gResult, gMode>>
    /\ UNCHANGED <<gStart, gTok, rpc, rTok, rResult, rError, refreshCount, rPayload,
                   rFirst, rOmitted>>
    /\ UNCHANGED <<lvars, xvars, mvars, ovars>>

\* refresh is not running
RefreshIdle ==
    /\ rTok = NoToken /\ rResult = NoToken
    /\ rError = "none"
    /\ refreshCount = 0
    /\ rPayload = NoPayload
    /\ rFirst = NoToken
    /\ rOmitted = TRUE

\* get_token and refresh are not running
TokenIdle ==
    /\ gpc = "not_called"
    /\ gStart = 0
    /\ gTok = NoToken /\ gResult = NoToken /\ gMode = "none"
    /\ rpc = "not_called"
    /\ RefreshIdle

\* the tokens an earlier run may have left in the cache
CachedTokens ==
    { [ access_token |-> at, refresh_token |-> rt, id_token |-> "ID0",
        expires_at |-> ea, scope |-> "openid profile offline_access",
        token_type |-> "Bearer" ] :
          at \in {"AT0", Null}, rt \in {"RT0", Null},
          ea \in {NoExpiry, 0, skew_seconds, skew_seconds + 1, 2 * skew_seconds} }

\* the cached tokens refresh(tok) is called on
RefreshInputs ==
    { [ access_token |-> "AT0", refresh_token |-> rt, id_token |-> id,
        expires_at |-> 0, scope |-> "openid profile offline_access",
        token_type |-> "Bearer" ] : rt \in {"RT0", Null, ""},
                                    id \in {"ID0", Null} }

\* the cache files get_token may find
InitialCaches ==
    {NoCache, GarbledCache, [exists |-> TRUE, json |-> [access_token |-> "AT0"]],
     [exists |-> TRUE,
      json |-> [access_token |-> "AT0", refresh_token |-> "RT0",
                id_token |-> "ID0", expires_at |-> BadExpiry,
                scope |-> "openid profile offline_access",
                token_type |-> "Bearer"]]}
        \cup { [exists |-> TRUE, json |-> to_json(tok)] : tok \in CachedTokens }

NextToken ==
    \/ GetTokenStart
    \/ RefreshCall
    \/ RefreshReturn
    \/ GetTokenRefreshDone
    \/ DeviceCodeRequest
    \/ LoginCheck
    \/ LoginSleepPoll
    \/ LoginPollAnswer
    \/ GetTokenLoginDone

NextRefresh == RefreshCall \/ RefreshReturn \/ RefreshAgain

----------------------------------------------------------------------------
\* ms_oauth_cache.py: the text of the cache file (json.dumps, json.loads)

MaxFieldLen == 2

\* Python values: None, a str (its code points), an int
PyNone == [k |-> "none"]
PyStr(s) == [k |-> "str", v |-> s]
PyInt(n) == [k |-> "int", v |-> n]

\* the result of a json.loads that raises
JsonError == [k |-> "error"]

\* the characters of the saved strings: the quote, the backslash, "n" and the
\* newline
JsonAlphabet == {34, 92, 110, 10}

RECURSIVE JsonStringsOfLen(_)
JsonStringsOfLen(n) ==
    IF n = 0 THEN {<<>>}
    ELSE {<<c>> \o s : c \in JsonAlphabet, s \in JsonStringsOfLen(n - 1)}

JsonStrings == UNION {JsonStringsOfLen(n) : n \in 0..MaxFieldLen}

\* the decimal digits of a natural number
RECURSIVE IntText(_)
IntText(n) ==
    IF n < 10 THEN <<48 + n>> ELSE IntText(n \div 10) \o <<48 + (n % 10)>>

\* the characters of a str between the quotes of its JSON text
RECURSIVE JsonEscape(_)
JsonEscape(s) ==
    IF s = <<>> THEN <<>>
    ELSE (IF Head(s) = 34 THEN <<92, 34>>
          ELSE IF Head(s) = 92 THEN <<92, 92>>
          ELSE IF Head(s) = 10 THEN <<92, 110>>
          ELSE <<Head(s)>>) \o JsonEscape(Tail(s))

\* a json.dumps that writes the characters of a str as they are
DumpsNoEscape(v) ==
    IF v.k = "none" THEN <<110, 117, 108, 108>>
    ELSE IF v.k = "int" THEN IntText(v.v)
    ELSE <<34>> \o v.v \o <<34>>

\* json.dumps of one value: null, the digits, or the quoted escaped string
json_dumps(v) ==
    IF v.k = "none" THEN <<110, 117, 108, 108>>
    ELSE IF v.k = "int" THEN IntText(v.v)
    ELSE <<34>> \o JsonEscape(v.v) \o <<34>>

\* the body of a JSON string is read to its end without a stray quote, a
\* raw newline or an unknown escape
RECURSIVE JsonBodyOk(_)
JsonBodyOk(b) ==
    IF b = <<>> THEN TRUE
    ELSE IF Head(b) = 92
         THEN Len(b) >= 2 /\ b[2] \in {34, 92, 110} /\ JsonBodyOk(Tail(Tail(b)))
    ELSE Head(b) \notin {34, 10} /\ JsonBodyOk(Tail(b))

\* the str a JSON string body stands for
RECURSIVE JsonUnescape(_)
JsonUnescape(b) ==
    IF b = <<>> THEN <<>>
    ELSE IF Head(b) = 92
         THEN <<(IF b[2] = 110 THEN 10 ELSE b[2])>> \o JsonUnescape(Tail(Tail(b)))
    ELSE <<Head(b)>> \o JsonUnescape(Tail(b))

\* the natural number of a run of digits
RECURSIVE TextInt(_)
TextInt(t) ==
    IF Len(t) = 1 THEN t[1] - 48
    ELSE 10 * TextInt(SubSeq(t, 1, Len(t) - 1)) + (t[Len(t)] - 48)

\* json.loads of one value
json_loads(t) ==
    IF t = <<110, 117, 108, 108>> THEN PyNone
    ELSE IF Len(t) >= 2 /\ t[1] = 34 /\ t[Len(t)] = 34
         THEN IF JsonBodyOk(SubSeq(t, 2, Len(t) - 1))
              THEN PyStr(JsonUnescape(SubSeq(t, 2, Len(t) - 1)))
              ELSE JsonError
    ELSE IF t # <<>> /\ \A i \in 1..Len(t) : t[i] \in 48..57
         THEN PyInt(TextInt(t))
    ELSE JsonError

\* the six keys of the cache file
TokenKeys == {"access_token", "refresh_token", "id_token", "expires_at",
              "scope", "token_type"}

\* the TokenSets handed to save_cache
SavedTokenSets ==
    { [ access_token  |-> a, refresh_token |-> r, id_token |-> i,
        expires_at    |-> e, scope |-> sc, token_type |-> tt ] :
          a \in {PyNone} \cup {PyStr(s) : s \in JsonStrings},
          r \in {PyNone, PyStr(<<92, 110>>)},
          i \in {PyNone, PyStr(<<34>>)},
          e \in {PyNone, PyInt(0), PyInt(9), PyInt(10), PyInt(3661)},
          sc \in {PyNone, PyStr(<<>>)},
          tt \in {PyNone, PyStr(<<110>>)} }

\* lines 106-112 and 125-126: save_cache(tok) writes json.dumps(tok.to_json());
\* the file is kept as the text of each key's value
CacheSave ==
    /\ cpc = "save"
    /\ cFile' = [k \in TokenKeys |-> json_dumps(to_json(cTok)[k])]
    /\ cpc' = "saved"
    /\ UNCHANGED <<cTok, cLoaded>>
    /\ UNCHANGED <<xvars, lvars, mvars, gvars, fvars, svars>>

\* lines 115-122: load_cache() reads the file; json.loads or from_json raising
\* gives None, else the TokenSet of the object
CacheLoad ==
    /\ cpc = "saved"
    /\ cLoaded' = IF \E k \in TokenKeys : json_loads(cFile[k]) = JsonError
                  THEN NoToken
                  ELSE from_json([k \in TokenKeys |-> json_loads(cFile[k])])
    /\ cpc' = "loaded"
    /\ UNCHANGED <<cTok, cFile>>
    /\ UNCHANGED <<xvars, lvars, mvars, gvars, fvars, svars>>

CacheIdle ==
    /\ cpc = "not_called"
    /\ cTok = NoToken
    /\ cFile = <<>>
    /\ cLoaded = NoToken

NextCache == CacheSave \/ CacheLoad

----------------------------------------------------------------------------
\* ms_oauth_cache.py: _write_secure step by step on the file system

MaxSaves == 2

\* the processes that may run save_cache
Procs == {1, 2}

\* the token of the n-th save
TokenOfSave(n) == IF n = 1 THEN "T1" ELSE IF n = 2 THEN "T2" ELSE "T3"

\* a save that writes the target path itself
TmpPathInPlace == "cache"

\* tmp = path.with_suffix(".tmp"): one sibling path, the same for every save
TmpPath == "tmp"

\* the mode a file is created with under the umask
CreateMode(um) == IF um = "077" THEN "600" ELSE "644"

\* what a reader of the cache path finds
CacheView == IF fsPath["cache"] = 0 THEN "absent" ELSE inodes[fsPath["cache"]].content

\* save_cache(tok) is called by a process w
SaveStart ==
  \E w \in writers :
    /\ wpc[w] \in {"idle", "done", "raised"}
    /\ saves < MaxSaves
    /\ saves' = saves + 1
    /\ wTok' = [wTok EXCEPT ![w] = TokenOfSave(saves + 1)]
    /\ wBefore' = [wBefore EXCEPT ![w] = CacheView]
    /\ wpc' = [wpc EXCEPT ![w] = "mkdir"]
    /\ UNCHANGED <<fsPath, inodes, fsDir, umask, wFd, savedOnce, writers>>
    /\ UNCHANGED <<xvars, lvars, mvars, gvars, cvars, svars>>

\* lines 97-103: the directory is made and its chmod to 700 is tried
SaveMkdir ==
  \E w \in writers :
    /\ wpc[w] = "mkdir"
    /\ \E chmodOk \in BOOLEAN :
         fsDir' = IF chmodOk THEN "700"
                  ELSE IF fsDir = "none" THEN "755" ELSE fsDir
    /\ wpc' = [wpc EXCEPT ![w] = "open"]
    /\ UNCHANGED <<fsPath, inodes, umask, wTok, wFd, wBefore, saves, savedOnce,
                   writers>>
    /\ UNCHANGED <<xvars, lvars, mvars, gvars, cvars, svars>>

\* line 109, tmp.write_text opening the file: an existing file is truncated
\* and keeps its mode, a missing one is created with the umask's mode
SaveOpen ==
  \E w \in writers :
    /\ wpc[w] = "open"
    /\ IF fsPath[TmpPath] # 0
       THEN /\ inodes' = [inodes EXCEPT ![fsPath[TmpPath]].content = "partial"]
            /\ wFd' = [wFd EXCEPT ![w] = fsPath[TmpPath]]
            /\ UNCHANGED fsPath
       ELSE /\ inodes' = Append(inodes, [content |-> "partial",
                                         mode |-> CreateMode(umask)])
            /\ fsPath' = [fsPath EXCEPT ![TmpPath] = Len(inodes) + 1]
            /\ wFd' = [wFd EXCEPT ![w] = Len(inodes) + 1]
    /\ wpc' = [wpc EXCEPT ![w] = "write"]
    /\ UNCHANGED <<fsDir, umask, wTok, wBefore, saves, savedOnce, writers>>
    /\ UNCHANGED <<xvars, lvars, mvars, gvars, cvars, svars>>

\* line 109, tmp.write_text writing and closing: the open file gets the text;
\* over text another process wrote since the truncation the result may be a
\* mix of the two
SaveWrite ==
  \E w \in writers :
    /\ wpc[w] = "write"
    /\ \E c \in (IF inodes[wFd[w]].content = "partial" THEN {wTok[w]}
                 ELSE {wTok[w], "garbled"}) :
         inodes' = [inodes EXCEPT ![wFd[w]].content = c]
    /\ wpc' = [wpc EXCEPT ![w] = "chmod"]
    /\ UNCHANGED <<fsPath, fsDir, umask, wTok, wFd, wBefore, saves, savedOnce,
                   writers>>
    /\ UNCHANGED <<xvars, lvars, mvars, gvars, cvars, svars>>

\* line 111: os.chmod(tmp, 0o600); it raises when tmp is gone
SaveChmod ==
  \E w \in writers :
    /\ wpc[w] = "chmod"
    /\ IF fsPath[TmpPath] = 0
       THEN /\ wpc' = [wpc EXCEPT ![w] = "raised"]
            /\ UNCHANGED inodes
       ELSE /\ inodes' = [inodes EXCEPT ![fsPath[TmpPath]].mode = "600"]
            /\ wpc' = [wpc EXCEPT ![w] = "replace"]
    /\ UNCHANGED <<fsPath, fsDir, umask, wTok, wFd, wBefore, saves, savedOnce,
                   writers>>
    /\ UNCHANGED <<xvars, lvars, mvars, gvars, cvars, svars>>

\* line 112: tmp.replace(path), the rename; it raises when tmp is gone
SaveReplace ==
  \E w \in writers :
    /\ wpc[w] = "replace"
    /\ IF fsPath[TmpPath] = 0
       THEN /\ wpc' = [wpc EXCEPT ![w] = "raised"]
            /\ UNCHANGED <<fsPath, savedOnce>>
       ELSE /\ fsPath' = [p \in {"cache", "tmp"} |->
                            IF p = "cache" THEN fsPath[TmpPath]
                            ELSE IF p = TmpPath THEN 0 ELSE fsPath[p]]
            /\ savedOnce' = TRUE
            /\ wpc' = [wpc EXCEPT ![w] = "done"]
    /\ UNCHANGED <<inodes, fsDir, umask, wTok, wFd, wBefore, saves, writers>>
    /\ UNCHANGED <<xvars, lvars, mvars, gvars, cvars, svars>>

\* the process dies inside save_cache
SaveCrash ==
  \E w \in writers :
    /\ wpc[w] \in {"mkdir", "open", "write", "chmod", "replace"}
    /\ wpc' = [wpc EXCEPT ![w] = "crashed"]
    /\ UNCHANGED <<fsPath, inodes, fsDir, umask, wTok, wFd, wBefore, saves,
                   savedOnce, writers>>
    /\ UNCHANGED <<xvars, lvars, mvars, gvars, cvars, svars>>

\* no save_cache runs and the files are not looked at
FsIdle ==
    /\ fsPath = [p \in {"cache", "tmp"} |-> 0]
    /\ inodes = <<>>
    /\ fsDir = "none"
    /\ umask = "077"
    /\ wpc = [w \in Procs |-> "idle"]
    /\ wTok = [w \in Procs |-> "none"]
    /\ wFd = [w \in Procs |-> 0]
    /\ wBefore = [w \in Procs |-> "absent"]
    /\ saves = 0
    /\ savedOnce = FALSE
    /\ writers = {}

\* ---------------------------------------------------------------------------
\* The session-token stage: xsts_authorize and main of
\* xbox_tokens_device_code.py, the script get_xsts.py, and the configuration
\* read when ms_oauth_cache.py is loaded.  Environment values and relying
\* parties are sequences of code points; an unset variable is None.
\* ---------------------------------------------------------------------------

\* no response received, no exception raised, nothing produced
NoResp == [none |-> TRUE]

NoExit == [none |-> TRUE]

NoOutput == [none |-> TRUE]

\* the characters str.strip() removes, among those of the inputs
Whitespace == {9, 10, 32}

\* mutation of strip: the value is used as it is
NoStrip(s) == s

RECURSIVE lstrip(_)
lstrip(s) ==
    IF s # <<>> /\ Head(s) \in Whitespace THEN lstrip(Tail(s)) ELSE s

RECURSIVE rstrip(_)
rstrip(s) ==
    IF s # <<>> /\ s[Len(s)] \in Whitespace
    THEN rstrip(SubSeq(s, 1, Len(s) - 1))
    ELSE s

\* str.strip()
strip(s) == rstrip(lstrip(s))

\* os.environ.get(key, default)
EnvGet(env, key, default) == IF env[key] = None THEN default ELSE env[key]

\* the values an environment variable may have: unset, empty, blank, set,
\* set with surrounding blanks
EnvValues == {None, <<>>, <<32>>, <<97>>, <<32, 97, 32>>}

\* the environment in which no variable is set
NoEnv ==
    [MSA_ACCESS_TOKEN |-> None, XSTS_RELYING_PARTY |-> None,
     MS_CLIENT_ID |-> None]

\* "http://xboxlive.com"
XboxLive ==
    <<104, 116, 116, 112, 58, 47, 47, 120, 98, 111, 120, 108, 105, 118, 101,
      46, 99, 111, 109>>

\* "http://auth.xboxlive.com"
AuthXboxLive ==
    <<104, 116, 116, 112, 58, 47, 47, 97, 117, 116, 104, 46, 120, 98, 111,
      120, 108, 105, 118, 101, 46, 99, 111, 109>>

\* the Token and the uhs claim of a 200 response with body b
JsonToken(b) == <<"Token", b>>

JsonUhs(b) == <<"uhs", b>>

\* the number of characters of a body log_resp and get_xsts.py print
BodyPrefixLen == 400

\* the lengths of the bodies the endpoints answer with
BodyLens == {0, BodyPrefixLen, BodyPrefixLen + 1}

\* body[:n] of a body of b.len characters
BodyPrefix(b, n) == [id |-> b.id, len |-> IF b.len < n THEN b.len ELSE n]

\* the statuses the session-token endpoint answers with
XstsStatuses == {200, 400, 401}

\* mutation of XstsPayload: the platform-user token is sent twice
XstsPayloadTwice(xbl_token, rp) ==
    [SandboxId |-> "RETAIL", UserTokens |-> <<xbl_token, xbl_token>>,
     RelyingParty |-> rp, TokenType |-> "JWT"]

\* the payload of the session-token request
XstsPayload(xbl_token, rp) ==
    [SandboxId |-> "RETAIL", UserTokens |-> <<xbl_token>>,
     RelyingParty |-> rp, TokenType |-> "JWT"]

\* mutation of AuthorizationHeader: the session token in place of the user
\* hash
HeaderWithoutHash(uhs, xsts_token) == <<"XBL3.0 x=", xsts_token, ";", xsts_token>>

\* f"XBL3.0 x={uhs};{xsts_token}"
AuthorizationHeader(uhs, xsts_token) == <<"XBL3.0 x=", uhs, ";", xsts_token>>

\* --- xbox_tokens_device_code.py: main from the call of xbl_user_authenticate

\* main, lines 359-361: xbl_user_authenticate has ended; its exception ends
\* main, its result gives the platform-user token and the user hash
MainXblDone ==
    /\ prog = "xbox_tokens_device_code"
    /\ spc = "xbl"
    /\ xpc \in {"returned", "raised"}
    /\ IF xpc = "returned"
       THEN /\ spc' = "xsts"
            /\ sError' = sError
       ELSE /\ spc' = "raised"
            /\ sError' = [kind |-> "RuntimeError",
                          message |-> <<[text |-> "XBL user/authenticate failed"],
                                        [summary |-> digest]>>]
    /\ UNCHANGED <<prog, sEnv, sXblReqs, sXbl, sReqs, sResp, sPrinted, sOut>>
    /\ UNCHANGED <<xvars, lvars, mvars, gvars, cvars, fvars>>

\* xsts_authorize, lines 321-336: the request is posted
XstsAuthorizeSend ==
    /\ prog = "xbox_tokens_device_code"
    /\ spc = "xsts"
    /\ sReqs' = Append(sReqs, XstsPayload(JsonToken(xResult), XboxLive))
    /\ spc' = "xsts_wait"
    /\ UNCHANGED <<prog, sEnv, sXblReqs, sXbl, sResp, sError, sPrinted, sOut>>
    /\ UNCHANGED <<xvars, lvars, mvars, gvars, cvars, fvars>>

\* xsts_authorize, lines 337-340: a status other than 200 is logged with the
\* first characters of the body and raised with the status; 200 returns the
\* body
XstsAuthorizeRecv ==
    /\ prog = "xbox_tokens_device_code"
    /\ spc = "xsts_wait"
    /\ \E st \in XstsStatuses, n \in BodyLens :
         LET r == [status |-> st, body |-> [id |-> "xsts", len |-> n]]
         IN  /\ sResp' = r
             /\ IF st # 200
                THEN /\ sPrinted' = sPrinted \o
                         <<[text |-> "XSTS"], [status |-> st],
                           [text |-> "BODY_LEN:"], [length |-> n],
                           [text |-> "BODY_PREFIX:"],
                           [body |-> BodyPrefix(r.body, BodyPrefixLen)]>>
                     /\ sError' = [kind |-> "RuntimeError",
                                   message |-> <<[text |-> "XSTS authorize failed: "],
                                                 [status |-> st]>>]
                     /\ spc' = "raised"
                ELSE /\ spc' = "write"
                     /\ UNCHANGED <<sPrinted, sError>>
    /\ UNCHANGED <<prog, sEnv, sXblReqs, sXbl, sReqs, sOut>>
    /\ UNCHANGED <<xvars, lvars, mvars, gvars, cvars, fvars>>

\* main, lines 364-386: the output file is written with the header
MainWrite ==
    /\ prog = "xbox_tokens_device_code"
    /\ spc = "write"
    /\ sOut' = [kind |-> "file",
                authorization_header |->
                    AuthorizationHeader(JsonUhs(xResult),
                                        JsonToken(sResp.body))]
    /\ sPrinted' = sPrinted \o
         <<[text |-> "OK: wrote xbox_tokens.json"], [text |-> "uhs:"],
           [uhs |-> JsonUhs(xResult)],
           [text |-> "auth header ready in xbox_tokens.json"]>>
    /\ spc' = "done"
    /\ UNCHANGED <<prog, sEnv, sXblReqs, sXbl, sReqs, sResp, sError>>
    /\ UNCHANGED <<xvars, lvars, mvars, gvars, cvars, fvars>>

\* --- get_xsts.py

\* line 5
MSA_ACCESS_TOKEN == strip(EnvGet(sEnv, "MSA_ACCESS_TOKEN", <<>>))

\* line 42
RELYING_PARTY ==
    LET v == strip(EnvGet(sEnv, "XSTS_RELYING_PARTY", XboxLive))
    IN  IF v # <<>> THEN v ELSE XboxLive

\* lines 5-7: the script stops when the identity token is missing
ScriptStart ==
    /\ prog = "get_xsts"
    /\ spc = "start"
    /\ IF MSA_ACCESS_TOKEN = <<>>
       THEN /\ spc' = "exit"
            /\ sError' = [kind |-> "SystemExit",
                          message |-> <<[text |-> "Missing MSA_ACCESS_TOKEN"]>>]
       ELSE /\ spc' = "xbl"
            /\ sError' = sError
    /\ UNCHANGED <<prog, sEnv, sXblReqs, sXbl, sReqs, sResp, sPrinted, sOut>>
    /\ UNCHANGED <<xvars, lvars, mvars, gvars, cvars, fvars>>

\* lines 14-35: the platform-user exchange; a status other than 200 prints
\* the first characters of the body and exits with 1
ScriptXbl ==
    /\ prog = "get_xsts"
    /\ spc = "xbl"
    /\ sXblReqs' = Append(sXblReqs,
                          [RpsTicket |-> <<100, 61>> \o MSA_ACCESS_TOKEN,
                           RelyingParty |-> AuthXboxLive])
    /\ \E st \in XstsStatuses, n \in BodyLens :
         LET r == [status |-> st, body |-> [id |-> "xbl", len |-> n]]
         IN  /\ sXbl' = r
             /\ IF st # 200
                THEN /\ sPrinted' = sPrinted \o
                         <<[text |-> "XBL FAIL"], [status |-> st],
                           [body |-> BodyPrefix(r.body, BodyPrefixLen)]>>
                     /\ sError' = [kind |-> "SystemExit", message |-> <<[code |-> 1]>>]
                     /\ spc' = "exit"
                ELSE /\ spc' = "xsts"
                     /\ UNCHANGED <<sPrinted, sError>>
    /\ UNCHANGED <<prog, sEnv, sReqs, sResp, sOut>>
    /\ UNCHANGED <<xvars, lvars, mvars, gvars, cvars, fvars>>

\* lines 42-61: the session-token request; a status other than 200 prints
\* the first characters of the body and exits with 1
ScriptXsts ==
    /\ prog = "get_xsts"
    /\ spc = "xsts"
    /\ sReqs' = Append(sReqs, XstsPayload(JsonToken(sXbl.body), RELYING_PARTY))
    /\ \E st \in XstsStatuses, n \in BodyLens :
         LET r == [status |-> st, body |-> [id |-> "xsts", len |-> n]]
         IN  /\ sResp' = r
             /\ IF st # 200
                THEN /\ sPrinted' = sPrinted \o
                         <<[text |-> "XSTS FAIL"], [status |-> st],
                           [body |-> BodyPrefix(r.body, BodyPrefixLen)]>>
                     /\ sError' = [kind |-> "SystemExit", message |-> <<[code |-> 1]>>]
                     /\ spc' = "exit"
                ELSE /\ spc' = "print"
                     /\ UNCHANGED <<sPrinted, sError>>
    /\ UNCHANGED <<prog, sEnv, sXblReqs, sXbl, sOut>>
    /\ UNCHANGED <<xvars, lvars, mvars, gvars, cvars, fvars>>

\* lines 64-67: the exports are printed, the header last
ScriptPrint ==
    /\ prog = "get_xsts"
    /\ spc = "print"
    /\ sOut' = [kind |-> "stdout",
                authorization_header |->
                    AuthorizationHeader(JsonUhs(sXbl.body),
                                        JsonToken(sResp.body))]
    /\ sPrinted' = sPrinted \o
         <<[text |-> "export XSTS_UHS="], [uhs |-> JsonUhs(sXbl.body)],
           [text |-> "export XSTS_TOKEN="], [token |-> JsonToken(sResp.body)],
           [text |-> "export XBL3_AUTH="],
           [header |-> AuthorizationHeader(JsonUhs(sXbl.body),
                                           JsonToken(sResp.body))],
           [text |-> "export XSTS_RELYING_PARTY="],
           [relying_party |-> RELYING_PARTY]>>
    /\ spc' = "done"
    /\ UNCHANGED <<prog, sEnv, sXblReqs, sXbl, sReqs, sResp, sError>>
    /\ UNCHANGED <<xvars, lvars, mvars, gvars, cvars, fvars>>

\* --- ms_oauth_cache.py: the module body and the entry into main

\* lines 56-58, 272-273: the script stops when the client identifier is
\* missing; otherwise main calls get_token
OauthLoad ==
    /\ prog = "ms_oauth_cache"
    /\ spc = "start"
    /\ IF strip(EnvGet(sEnv, "MS_CLIENT_ID", <<>>)) = <<>>
       THEN /\ spc' = "exit"
            /\ sError' = [kind |-> "SystemExit",
                          message |-> <<[text |-> "Set MS_CLIENT_ID"]>>]
            /\ gpc' = gpc
       ELSE /\ spc' = "main"
            /\ sError' = sError
            /\ gpc' = "start"
    /\ UNCHANGED <<prog, sEnv, sXblReqs, sXbl, sReqs, sResp, sPrinted, sOut>>
    /\ UNCHANGED <<gStart, gTok, gResult, gMode, rpc, rTok, rResult, rError,
                   refreshCount, rPayload, rFirst, rOmitted>>
    /\ UNCHANGED <<xvars, lvars, mvars, cvars, fvars>>

\* no script of the session-token stage runs
StageIdle ==
    /\ prog = "none"
    /\ spc = "none"
    /\ sEnv = NoEnv
    /\ sXblReqs = <<>> /\ sXbl = NoResp
    /\ sReqs = <<>> /\ sResp = NoResp
    /\ sError = NoExit
    /\ sPrinted = <<>>
    /\ sOut = NoOutput

NextMain ==
    \/ XblEncode
    \/ XblSend
    \/ XblRecv
    \/ XblExhausted
    \/ MainXblDone
    \/ XstsAuthorizeSend
    \/ XstsAuthorizeRecv
    \/ MainWrite
    \/ ScriptStart
    \/ ScriptXbl
    \/ ScriptXsts
    \/ ScriptPrint

NextConfig ==
    \/ OauthLoad
    \/ GetTokenStart
    \/ RefreshCall
    \/ RefreshReturn
    \/ GetTokenRefreshDone
    \/ DeviceCodeRequest
    \/ LoginCheck
    \/ LoginSleepPoll
    \/ LoginPollAnswer
    \/ GetTokenLoginDone
    \/ ScriptStart
    \/ ScriptXbl
    \/ ScriptXsts
    \/ ScriptPrint

\* nothing but the stage under study runs
OtherIdle == CacheIdle /\ FsIdle /\ StageIdle

NextSave ==
    \/ SaveStart
    \/ SaveMkdir
    \/ SaveOpen
    \/ SaveWrite
    \/ SaveChmod
    \/ SaveReplace
    \/ SaveCrash

----------------------------------------------------------------------------
\* msal.py: the standalone device-code script

\* time.sleep(interval + (5 if e.get("error") == "slow_down" else 0))
MsalWait(iv, ans) == iv + (IF ans = "slow_down" THEN 5 ELSE 0)

\* lines 13-19: the device-code request; raise_for_status() raises on an error
\* status, otherwise interval and deadline are set
MsalDeviceCode ==
    /\ mpc = "start"
    /\ \E status \in {200, 400}, lat \in 0..MaxLatency :
         /\ now' = now + lat
         /\ IF status # 200
            THEN /\ mpc' = "dc_failed"
                 /\ UNCHANGED <<mInterval, mDeadline, mInterval0>>
            ELSE \E iv \in 1..MaxInterval, ex \in 0..MaxExpires :
                 /\ mInterval' = iv
                 /\ mInterval0' = iv
                 /\ mDeadline' = now' + ex
                 /\ mpc' = "check"
    /\ UNCHANGED <<mResps, mWaits>>
    /\ UNCHANGED <<lpc, interval, deadline, lResult, cache, lError, cache0, t0,
                   interval0, expiresIn, sleeps, lresps, lastPollAt, lastLatency,
                   dcIntervals, dcLifetimes>>
    /\ UNCHANGED <<xvars, gvars, ovars>>

\* lines 21-22 and 43-44: the loop test; inside the deadline the poll is sent
\* at once, past it the else branch raises TimeoutError
MsalCheck ==
    /\ mpc = "check"
    /\ mpc' = IF now < mDeadline THEN "await" ELSE "expired"
    /\ UNCHANGED <<mInterval, mDeadline, mInterval0, mResps, mWaits>>
    /\ UNCHANGED <<lvars, xvars, gvars, ovars>>

\* lines 22-42: the poll is answered; a 200 ends with SUCCESS, a transient
\* error sleeps and goes back to the loop test, any other error raises
MsalAnswer ==
    /\ mpc = "await"
    /\ \E ans \in PollAnswers, lat \in 0..MaxLatency :
         /\ mResps' = Append(mResps, ans)
         /\ IF ans = "ok"
            THEN /\ mpc' = "success"
                 /\ now' = now + lat
                 /\ UNCHANGED mWaits
            ELSE IF ans \in TransientErrors
            THEN /\ mWaits' = Append(mWaits, MsalWait(mInterval, ans))
                 /\ now' = now + lat + MsalWait(mInterval, ans)
                 /\ mpc' = "check"
            ELSE /\ mpc' = "failed"
                 /\ now' = now + lat
                 /\ UNCHANGED mWaits
    /\ UNCHANGED <<mInterval, mDeadline, mInterval0>>
    /\ UNCHANGED <<lpc, interval, deadline, lResult, cache, lError, cache0, t0,
                   interval0, expiresIn, sleeps, lresps, lastPollAt, lastLatency,
                   dcIntervals, dcLifetimes>>
    /\ UNCHANGED <<xvars, gvars, ovars>>

MsalIdle ==
    /\ mpc = "start"
    /\ mInterval = 0 /\ mDeadline = 0 /\ mInterval0 = 0
    /\ mResps = <<>> /\ mWaits = <<>>

NextMsal == MsalDeviceCode \/ MsalCheck \/ MsalAnswer

----------------------------------------------------------------------------
\* Specifications

XblIdle ==
    /\ xpc = "call"
    /\ tickets = <<>> /\ seen = {} /\ uniq = <<>>
    /\ rpIdx = 1 /\ hdrIdx = 1 /\ candIdx = 1
    /\ attempts = <<>> /\ xResult = NoResult /\ digest = <<>>
    /\ sent = <<>> /\ resps = <<>> /\ inflight = 0
    /\ calls = 0 /\ firstUniq = <<>>

\* main: the fragment value v of the redirect is kept raw and percent-decoded
\* (decoded = unquote(v) or v); an empty access token never reaches the call
InitXbl ==
    /\ \E v \in Strings \ {<<>>} :
         /\ xRaw = v
         /\ xDecoded = (IF Truthy(unquote(v)) THEN unquote(v) ELSE v)
    /\ failStatus \in FailStatuses
    /\ XblIdle
    /\ cache = NoCache
    /\ LoginIdle
    /\ MsalIdle
    /\ OtherIdle
    /\ TokenIdle

NextXbl == XblEncode \/ XblSend \/ XblRecv \/ XblExhausted \/ XblAgain

SpecXbl == InitXbl /\ [][NextXbl]_vars

\* the function called on any non-empty decoded token with any raw form, up to
\* its first request
InitEnc ==
    /\ xDecoded \in Strings \ {<<>>}
    /\ xRaw \in Strings \cup {None}
    /\ failStatus = 401
    /\ XblIdle
    /\ cache = NoCache
    /\ LoginIdle
    /\ MsalIdle
    /\ OtherIdle
    /\ TokenIdle

NextEnc == XblEncode \/ XblSend

SpecEnc == InitEnc /\ [][NextEnc]_vars

\* one login attempt of device_code_login, from the device-code request on
InitLogin ==
    /\ xDecoded = <<97>> /\ xRaw = None
    /\ failStatus = 401
    /\ XblIdle
    /\ cache = OldCache
    /\ LoginIdle
    /\ MsalIdle
    /\ OtherIdle
    /\ TokenIdle

SpecLogin == InitLogin /\ [][NextLogin]_vars

\* device_code_login run to its end: the interpreter takes the next step of
\* the function whenever there is one, and every request is answered or times
\* out
InitLoginFair ==
    /\ xDecoded = <<97>> /\ xRaw = None
    /\ failStatus = 401
    /\ XblIdle
    /\ cache = OldCache
    /\ lpc = "start"
    /\ now = 0
    /\ dcIntervals = {1, MaxInterval}
    /\ dcLifetimes = {0, MaxInterval + 1, MaxExpires}
    /\ LoginLocals
    /\ MsalIdle
    /\ OtherIdle
    /\ TokenIdle

SpecLoginFair == InitLoginFair /\ [][NextLogin]_vars /\ WF_vars(NextLogin)

\* one call of get_token on a cache left by an earlier run; the device-code
\* endpoint grants one interval and a lifetime of none or one poll
InitToken ==
    /\ xDecoded = <<97>>
    /\ xRaw = None
    /\ failStatus = 401
    /\ XblIdle
    /\ cache \in InitialCaches
    /\ lpc = "not_called"
    /\ now = 0
    /\ dcIntervals = {MaxInterval}
    /\ dcLifetimes = {0, MaxInterval + 1}
    /\ LoginLocals
    /\ MsalIdle
    /\ OtherIdle
    /\ gpc = "start"
    /\ gStart = 0
    /\ gTok = NoToken /\ gResult = NoToken /\ gMode = "none"
    /\ rpc = "not_called"
    /\ RefreshIdle

SpecToken == InitToken /\ [][NextToken]_vars

\* refresh(tok) called on a token of the cache, and again on what it saved
InitRefresh ==
    /\ xDecoded = <<97>>
    /\ xRaw = None
    /\ failStatus = 401
    /\ XblIdle
    /\ \E tok \in RefreshInputs :
         /\ cache = [exists |-> TRUE, json |-> to_json(tok)]
         /\ rTok = tok
         /\ rFirst = tok
    /\ LoginIdle
    /\ MsalIdle
    /\ OtherIdle
    /\ gpc = "not_called"
    /\ gStart = 0
    /\ gTok = NoToken /\ gResult = NoToken /\ gMode = "none"
    /\ rpc = "start"
    /\ rResult = NoToken
    /\ rError = "none"
    /\ refreshCount = 0
    /\ rPayload = NoPayload
    /\ rOmitted = TRUE

SpecRefresh == InitRefresh /\ [][NextRefresh]_vars

\* save_cache(T) followed by load_cache()
InitCache ==
    /\ xDecoded = <<97>>
    /\ xRaw = None
    /\ failStatus = 401
    /\ XblIdle
    /\ cache = NoCache
    /\ LoginIdle
    /\ MsalIdle
    /\ TokenIdle
    /\ cpc = "save"
    /\ cTok \in SavedTokenSets
    /\ cFile = <<>>
    /\ cLoaded = NoToken
    /\ FsIdle
    /\ StageIdle

SpecCache == InitCache /\ [][NextCache]_vars

\* the file system before the saves: no cache file, or the one an earlier
\* save left; either umask
FsStart ==
    /\ \E old \in BOOLEAN :
         /\ inodes = IF old THEN <<[content |-> "old", mode |-> "600"]>> ELSE <<>>
         /\ fsPath = [p \in {"cache", "tmp"} |->
                        IF old /\ p = "cache" THEN 1 ELSE 0]
         /\ fsDir = IF old THEN "700" ELSE "none"
         /\ savedOnce = old
    /\ umask \in {"077", "022"}
    /\ wpc = [w \in Procs |-> "idle"]
    /\ wTok = [w \in Procs |-> "none"]
    /\ wFd = [w \in Procs |-> 0]
    /\ wBefore = [w \in Procs |-> "absent"]
    /\ saves = 0

\* save_cache called by one process, one call after the other, any of which
\* may crash
InitSave ==
    /\ xDecoded = <<97>>
    /\ xRaw = None
    /\ failStatus = 401
    /\ XblIdle
    /\ cache = NoCache
    /\ LoginIdle
    /\ MsalIdle
    /\ TokenIdle
    /\ CacheIdle
    /\ FsStart
    /\ writers = {1}
    /\ StageIdle

SpecSave == InitSave /\ [][NextSave]_vars

\* save_cache called by two processes at the same time
InitSaveBoth ==
    /\ xDecoded = <<97>>
    /\ xRaw = None
    /\ failStatus = 401
    /\ XblIdle
    /\ cache = NoCache
    /\ LoginIdle
    /\ MsalIdle
    /\ TokenIdle
    /\ CacheIdle
    /\ FsStart
    /\ writers = Procs
    /\ StageIdle

SpecSaveBoth == InitSaveBoth /\ [][NextSave]_vars

\* one run of msal.py
InitMsal ==
    /\ xDecoded = <<97>>
    /\ xRaw = None
    /\ failStatus = 401
    /\ XblIdle
    /\ cache = NoCache
    /\ LoginIdle
    /\ MsalIdle
    /\ OtherIdle
    /\ TokenIdle

SpecMsal == InitMsal /\ [][NextMsal]_vars

\* the locals of xbl_user_authenticate and the traffic before the call
XblLocals ==
    /\ tickets = <<>> /\ seen = {} /\ uniq = <<>>
    /\ rpIdx = 1 /\ hdrIdx = 1 /\ candIdx = 1
    /\ attempts = <<>> /\ xResult = NoResult /\ digest = <<>>
    /\ sent = <<>> /\ resps = <<>> /\ inflight = 0
    /\ calls = 0 /\ firstUniq = <<>>

\* no output, no request, no response, nothing printed yet
StageStart ==
    /\ sXblReqs = <<>> /\ sXbl = NoResp
    /\ sReqs = <<>> /\ sResp = NoResp
    /\ sError = NoExit
    /\ sPrinted = <<>>
    /\ sOut = NoOutput

\* get_xsts.py is started in any environment
ScriptInit ==
    /\ prog = "get_xsts"
    /\ spc = "start"
    /\ sEnv \in [MSA_ACCESS_TOKEN : EnvValues, XSTS_RELYING_PARTY : EnvValues,
                 MS_CLIENT_ID : {None}]
    /\ xDecoded = <<97>>
    /\ xRaw = None
    /\ failStatus = 401
    /\ xpc = "not_called"

\* one run of xbox_tokens_device_code.py from the call of
\* xbl_user_authenticate on a non-empty access token, or one run of
\* get_xsts.py
InitMain ==
    /\ \/ /\ prog = "xbox_tokens_device_code"
          /\ spc = "xbl"
          /\ sEnv = NoEnv
          /\ \E v \in Strings \ {<<>>} :
               /\ xRaw = v
               /\ xDecoded = (IF Truthy(unquote(v)) THEN unquote(v) ELSE v)
          /\ failStatus \in FailStatuses
          /\ xpc = "call"
       \/ ScriptInit
    /\ XblLocals
    /\ StageStart
    /\ cache = NoCache
    /\ LoginIdle
    /\ MsalIdle
    /\ CacheIdle
    /\ FsIdle
    /\ TokenIdle

SpecMain == InitMain /\ [][NextMain]_vars

\* the cache files ms_oauth_cache.py is started with: none, a fresh token,
\* an expired token with a refresh token
ConfigCaches ==
    {NoCache}
        \cup { [exists |-> TRUE, json |-> to_json(tok)] :
                 tok \in { t \in CachedTokens :
                             /\ t.access_token = "AT0"
                             /\ t.refresh_token = "RT0"
                             /\ t.expires_at \in {0, 2 * skew_seconds} } }

\* one run of ms_oauth_cache.py, or one run of get_xsts.py, in any
\* environment
InitConfig ==
    /\ \/ /\ prog = "ms_oauth_cache"
          /\ spc = "start"
          /\ sEnv \in [MSA_ACCESS_TOKEN : {None}, XSTS_RELYING_PARTY : {None},
                       MS_CLIENT_ID : EnvValues]
          /\ xDecoded = <<97>>
          /\ xRaw = None
          /\ failStatus = 401
          /\ xpc = "not_called"
          /\ cache \in ConfigCaches
       \/ /\ ScriptInit
          /\ cache = NoCache
    /\ XblLocals
    /\ StageStart
    /\ lpc = "not_called"
    /\ now = 0
    /\ dcIntervals = {MaxInterval}
    /\ dcLifetimes = {0, MaxInterval + 1}
    /\ LoginLocals
    /\ MsalIdle
    /\ CacheIdle
    /\ FsIdle
    /\ TokenIdle

SpecConfig == InitConfig /\ [][NextConfig]_vars

----------------------------------------------------------------------------
\* Claims about xbl_user_authenticate

\* the k-th entry of a finite set of numbers, counted from the smallest
KthSmallest(S, k) == CHOOSE i \in S : Cardinality({j \in S : j <= i}) = k

\* C1: a 200 answer ends the search at once: it is the last response, it
\* answers the last request sent, every earlier response was not a 200, no
\* request follows it, and the function has returned that response's body; the
\* number of requests is then the position k of the 200.
C1_ShortCircuit ==
    /\ \A i \in 1..Len(resps) :
         resps[i].status = 200 =>
            /\ i = Len(resps)
            /\ Len(sent) = i
            /\ xpc = "returned"
    /\ xpc = "returned" =>
         /\ Len(resps) >= 1
         /\ Len(sent) = Len(resps)
         /\ resps[Len(resps)].status = 200
         /\ \A i \in 1..(Len(resps) - 1) : resps[i].status # 200
         /\ xResult = resps[Len(resps)].body
    /\ xpc # "returned" => xResult = NoResult

\* C1 witness: the 200 came on the 7th combination
C1_Witness == xpc = "returned" /\ Len(sent) = 7 /\ xResult = resps[7].body

\* the i-th combination in lexicographic order of (relying party, header
\* configuration, candidate), for u candidates
C2_ExpectedRp(i, u) ==
    IF (i - 1) \div (2 * u) = 0 THEN "http://auth.xboxlive.com"
    ELSE "https://auth.xboxlive.com"

C2_ExpectedContract(i, u) == ((i - 1) \div u) % 2 = 0

C2_ExpectedCand(i, u) == ((i - 1) % u) + 1

\* C2: requests go out one at a time, each only after the previous response
\* has arrived, and the i-th request is the i-th combination in lexicographic
\* order: relying party outermost (http before https), then the version header
\* (present before absent), then the candidates in the encoder's order.
C2_SequentialOrdered ==
    /\ inflight \in {0, 1}
    /\ Len(sent) = Len(resps) + inflight
    /\ inflight = 1 <=> xpc = "await"
    /\ \A i \in 1..Len(sent) :
         /\ i <= 4 * Len(uniq)
         /\ sent[i].rp = C2_ExpectedRp(i, Len(uniq))
         /\ sent[i].contract = C2_ExpectedContract(i, Len(uniq))
         /\ sent[i].lbl = uniq[C2_ExpectedCand(i, Len(uniq))].label
         /\ sent[i].ticket = uniq[C2_ExpectedCand(i, Len(uniq))].ticket

\* C2 witness: the search has reached the https relying party without the
\* version header, past the first candidate
C2_Witness ==
    /\ Len(sent) >= 1
    /\ sent[Len(sent)].rp = "https://auth.xboxlive.com"
    /\ sent[Len(sent)].contract = FALSE
    /\ sent[Len(sent)].ticket # uniq[1].ticket

\* the distinct encoded values of the priority list
C3_UniqueValues == {tickets[i].ticket : i \in 1..Len(tickets)}

\* C3: the exhaustion failure is raised only after every (relying party, header
\* configuration, unique candidate) combination was requested exactly once
\* (2 x 2 x unique candidates requests, none repeated), every response was a
\* non-200, and one attempt entry with the status received was recorded per
\* request.
C3_ExhaustiveOnce ==
    xpc = "raised" =>
        /\ Len(sent) = 2 * 2 * Cardinality(C3_UniqueValues)
        /\ \A i, j \in 1..Len(sent) :
             ( /\ sent[i].rp = sent[j].rp
               /\ sent[i].contract = sent[j].contract
               /\ sent[i].ticket = sent[j].ticket ) => i = j
        /\ \A rp \in {"http://auth.xboxlive.com", "https://auth.xboxlive.com"},
              c \in BOOLEAN, v \in C3_UniqueValues :
             \E i \in 1..Len(sent) :
                sent[i].rp = rp /\ sent[i].contract = c /\ sent[i].ticket = v
        /\ Len(resps) = Len(sent)
        /\ Len(attempts) = Len(sent)
        /\ \A i \in 1..Len(sent) :
             /\ resps[i].status # 200
             /\ attempts[i].status = resps[i].status
             /\ attempts[i].lbl = sent[i].lbl
             /\ attempts[i].rp = sent[i].rp
             /\ attempts[i].contract = sent[i].contract

\* C3 witness: an exhausted search over more than three unique candidates
C3_Witness == xpc = "raised" /\ Len(sent) > 12 /\ Len(attempts) = Len(sent)

\* C4: the failure's digest has at least one and at most 12 entries however
\* many attempts were made, and its i-th entry is the i-th request actually
\* issued, with the status that request actually received.
C4_DigestBounded ==
    xpc = "raised" =>
        /\ Len(digest) >= 1
        /\ Len(digest) <= 12
        /\ Len(digest) <= Len(sent)
        /\ \A i \in 1..Len(digest) :
             /\ digest[i].lbl = sent[i].lbl
             /\ digest[i].rp = sent[i].rp
             /\ digest[i].contract = sent[i].contract
             /\ digest[i].status = resps[i].status
             /\ digest[i].status # 200

\* C4 witness: more than 12 attempts were made and the digest holds 12
C4_Witness == xpc = "raised" /\ Len(attempts) > 12 /\ Len(digest) = 12

\* the positions of the priority list that hold the first occurrence of their
\* encoded value
C5_FirstOccurrences ==
    {i \in 1..Len(tickets) :
        \A j \in 1..(i - 1) : tickets[j].ticket # tickets[i].ticket}

\* C5: the candidate sequence has no two entries with the same encoded value;
\* it consists of exactly the first occurrences of the priority list, each
\* with its label, in the priority list's order.
C5_DedupFirstKept ==
    xpc # "call" =>
        /\ \A a, b \in 1..Len(uniq) : uniq[a].ticket = uniq[b].ticket => a = b
        /\ Len(uniq) = Cardinality(C5_FirstOccurrences)
        /\ \A k \in 1..Len(uniq) :
             uniq[k] = tickets[KthSmallest(C5_FirstOccurrences, k)]

\* C5 witness: duplicates were dropped from the middle of the priority list
C5_Witness ==
    /\ xpc = "loop"
    /\ Len(uniq) < Len(tickets)
    /\ \E k \in 2..Len(uniq) : uniq[k] # tickets[k]

\* the raw form the function works with: the raw argument, or the decoded
\* token when none was given
C6_Raw == IF xRaw # None /\ xRaw # <<>> THEN xRaw ELSE xDecoded

\* the six base forms in the claimed order
C6_Bases ==
    << xDecoded, C6_Raw, unquote(C6_Raw),
       pct_encode(xDecoded), pct_encode(C6_Raw), pct_encode(unquote(C6_Raw)) >>

\* C6: the priority list has 18 entries: the six base forms unprefixed in the
\* order decoded, raw, unescaped raw, encoded decoded, encoded raw, encoded
\* unescaped raw, then the "d=" and "t=" form of each base in that order; every
\* unprefixed entry precedes every prefixed one, and the first candidate kept
\* and the first request sent carry the decoded token itself.
C6_PriorityOrder ==
    xpc # "call" =>
        /\ Len(tickets) = 18
        /\ \A b \in 1..6 :
             /\ tickets[b].ticket = C6_Bases[b]
             /\ tickets[6 + 2 * b - 1].ticket = <<100, 61>> \o C6_Bases[b]
             /\ tickets[6 + 2 * b].ticket = <<116, 61>> \o C6_Bases[b]
        /\ uniq[1].ticket = xDecoded
        /\ uniq[1].label = "decoded"
        /\ Len(sent) >= 1 => sent[1].ticket = xDecoded

\* C6 witness: all 18 forms are different and the first request is out
C6_Witness == xpc = "await" /\ Len(uniq) = 18 /\ Len(sent) = 1

----------------------------------------------------------------------------
\* Claims about device_code_login

\* every poll so far was answered authorization_pending
AllPending == \A i \in 1..Len(lresps) : lresps[i] = "authorization_pending"

\* the login attempt has reached one of its three outcomes
LoginEnded == lpc \in {"authorized", "denied", "expired"}

CeilDiv(a, b) == (a + b - 1) \div b

\* the number of slow_down answers among the first n poll responses
RECURSIVE SlowDownsIn(_)
SlowDownsIn(n) ==
    IF n = 0 THEN 0
    ELSE SlowDownsIn(n - 1) + (IF lresps[n] = "slow_down" THEN 1 ELSE 0)

\* C8 as claimed: with every poll answered authorization_pending the attempt
\* ends Expired, after at most ceil(expires_in / interval) polls, no earlier
\* than expires_in and no later than expires_in + interval seconds after the
\* device-code response.
C8_ExpiredWithinInterval ==
    /\ (AllPending /\ lpc \notin {"start", "dc_failed"}) =>
            Len(sleeps) <= CeilDiv(expiresIn, interval0)
    /\ (AllPending /\ LoginEnded) =>
            /\ lpc = "expired"
            /\ now - t0 >= expiresIn
            /\ now - t0 <= expiresIn + interval0

\* C8, amended: with every poll answered authorization_pending the attempt
\* ends Expired, after at most ceil(expires_in / interval) polls, no earlier
\* than expires_in and no later than expires_in + interval seconds plus the
\* time the last poll took to be answered; with a last poll answered at once
\* that is within expires_in + interval.
C8_ExpiredWithinIteration ==
    /\ (AllPending /\ lpc \notin {"start", "dc_failed"}) =>
            Len(sleeps) <= CeilDiv(expiresIn, interval0)
    /\ (AllPending /\ LoginEnded) =>
            /\ lpc = "expired"
            /\ now - t0 >= expiresIn
            /\ now - t0 <= expiresIn + interval0 + lastLatency
            /\ lastLatency = 0 => now - t0 <= expiresIn + interval0

\* C8 witness: interval 5, expires_in 20, four polls all pending, expired
C8_Witness ==
    /\ lpc = "expired"
    /\ interval0 = 5 /\ expiresIn = 20
    /\ Len(lresps) = 4 /\ AllPending
    /\ now - t0 \in 20..25

\* C9: no poll is sent at a time later than the deadline, so no poll sent
\* after the expiry can lead to Authorized and to a cached token.
C9_NoPollAfterExpiry ==
    /\ Len(sleeps) >= 1 => lastPollAt <= deadline
    /\ (lpc = "authorized" /\ cache = save_cache(lResult)) => lastPollAt <= deadline

\* C10: every slow_down raises the interval by 5 seconds for good: the
\* interval is the device-code response's interval plus 5 per slow_down
\* received, every sleep was the interval in force at its time, so after a
\* slow_down every later sleep is at least the interval before it plus 5, and
\* the sleeps never get shorter.
C10_SlowDownPermanent ==
    lpc \notin {"start", "dc_failed"} =>
        /\ interval = interval0 + 5 * SlowDownsIn(Len(lresps))
        /\ \A j \in 1..Len(sleeps) : sleeps[j] = interval0 + 5 * SlowDownsIn(j - 1)
        /\ \A i \in 1..Len(lresps) :
             lresps[i] = "slow_down" =>
                /\ interval >= sleeps[i] + 5
                /\ \A j \in (i + 1)..Len(sleeps) : sleeps[j] >= sleeps[i] + 5
        /\ \A i, j \in 1..Len(sleeps) : i <= j => sleeps[i] <= sleeps[j]
        /\ Len(sleeps) >= 1 => interval >= sleeps[Len(sleeps)]

\* C10 witness: a slow_down, then an authorization_pending, then a third poll
\* that still waited the raised interval
C10_Witness ==
    /\ Len(sleeps) >= 3
    /\ lresps[1] = "slow_down"
    /\ lresps[2] = "authorization_pending"
    /\ sleeps[2] = sleeps[1] + 5
    /\ sleeps[3] = sleeps[1] + 5

----------------------------------------------------------------------------
\* Claims about msal.py

\* C11: in msal.py, once a slow_down was answered, the wait before every later
\* poll (not only the next one) is at least the device-code response's interval
\* plus 5 seconds.
C11_MsalSlowDownPermanent ==
    \A i \in 1..Len(mResps) :
        mResps[i] = "slow_down" =>
            \A j \in i..Len(mWaits) : mWaits[j] >= mInterval0 + 5

----------------------------------------------------------------------------
\* Claims about device_code_login's outcomes and the cache

\* C12: an authorization_pending or slow_down response never ends the flow with
\* a failure: the flow goes back to the deadline check with no error raised and
\* nothing returned, and authorization_pending leaves the interval as it was.
C12_TransientKeepsPending ==
    [][ (lpc = "await" /\ lresps' # lresps
           /\ lresps'[Len(lresps')] \in {"authorization_pending", "slow_down"})
        => /\ lpc' = "check"
           /\ lError' = NoError
           /\ lResult' = lResult
           /\ (lresps'[Len(lresps')] = "authorization_pending"
                 => interval' = interval) ]_vars

C12_Witness ==
    /\ lpc = "check"
    /\ Len(lresps) = 2
    /\ lresps[1] = "slow_down"
    /\ lresps[2] = "authorization_pending"
    /\ interval = interval0 + 5

C14_ReturnedIsCached ==
    lpc = "authorized" =>
        /\ cache = save_cache(lResult)
        /\ load_cache(cache) = lResult

C14_Witness ==
    /\ lpc = "authorized"
    /\ lResult.refresh_token = Null
    /\ cache # cache0
    /\ load_cache(cache).access_token = "AT1"

\* C15: device_code_login writes the cache only on the Authorized transition:
\* while the login is pending (where it may be aborted) and after it ended in
\* Denied, in Expired, with a failed device-code request or a failed save, the
\* cache file is what it was when the attempt started.
C15_CacheWrittenOnlyOnAuthorized ==
    /\ lpc # "authorized" => cache = cache0
    /\ cache # cache0 =>
         /\ lresps # <<>>
         /\ lresps[Len(lresps)] = "ok"
         /\ cache = save_cache(lResult)

C15_Witness ==
    /\ lpc = "denied"
    /\ Len(lresps) = 2
    /\ lresps[1] = "slow_down"
    /\ cache = OldCache

----------------------------------------------------------------------------
\* Claims about get_token and refresh

\* the cache file c holds a token whose access token has more than 60 seconds
\* left at time t
HoldsFreshToken(c, t) ==
    /\ c.exists
    /\ "json" \in DOMAIN c
    /\ "access_token" \in DOMAIN c.json
    /\ c.json.access_token \notin {Null, ""}
    /\ "expires_at" \in DOMAIN c.json
    /\ c.json.expires_at - t > 60

\* the cache file c holds a token with a refresh token
HoldsRefreshToken(c) ==
    /\ c.exists
    /\ "json" \in DOMAIN c
    /\ "refresh_token" \in DOMAIN c.json
    /\ c.json.refresh_token \notin {Null, ""}

\* the cache file c is absent or does not read as a token
CacheAbsent(c) == ~c.exists \/ "json" \notin DOMAIN c

\* C16: whenever the cache holds a token with more than 60 seconds left,
\* get_token returns that token, field for field, with "cached_access", sends
\* no refresh request and no device-code request, and leaves the cache file
\* as it was.
C16_CachedAccess ==
    (gpc # "not_called" /\ gpc # "start" /\ HoldsFreshToken(cache0, gStart)) =>
        /\ gpc = "returned"
        /\ gMode = "cached_access"
        /\ \A k \in {"access_token", "refresh_token", "id_token", "expires_at",
                     "scope", "token_type"} : gResult[k] = cache0.json[k]
        /\ rpc = "not_called" /\ refreshCount = 0
        /\ lpc = "not_called" /\ lresps = <<>>
        /\ cache = cache0

C16_Witness ==
    /\ gpc = "returned"
    /\ gMode = "cached_access"
    /\ gResult.expires_at = 61
    /\ gResult.refresh_token = "RT0"
    /\ now = 0

\* C17: get_token goes cache, then refresh, then device login: a refresh is
\* attempted at most once, only on a cached token that is not valid and has a
\* refresh token, and its success is returned with "refreshed" without a
\* device-code request; the device login starts only when the cache is absent,
\* or the cached token is invalid without a refresh token, or the refresh
\* failed, and its result is returned with "device_login".
C17_CacheRefreshLogin ==
    /\ refreshCount <= 1
    /\ rpc # "not_called" =>
         /\ ~CacheAbsent(cache0)
         /\ ~HoldsFreshToken(cache0, gStart)
         /\ HoldsRefreshToken(cache0)
    /\ (gpc = "returned" /\ rpc = "returned") =>
         /\ gMode = "refreshed"
         /\ gResult = rResult
    /\ gMode = "refreshed" =>
         /\ rpc = "returned"
         /\ lpc = "not_called"
    /\ lpc # "not_called" =>
         \/ CacheAbsent(cache0)
         \/ ~HoldsFreshToken(cache0, gStart) /\ ~HoldsRefreshToken(cache0)
         \/ refreshCount = 1 /\ rpc = "raised"
    /\ (gpc = "returned" /\ lpc # "not_called") =>
         /\ gMode = "device_login"
         /\ lpc = "authorized"
         /\ gResult = lResult

C17_Witness ==
    /\ gpc = "returned"
    /\ gMode = "device_login"
    /\ refreshCount = 1
    /\ rError = "refresh_failed"
    /\ lresps = <<"ok">>

\* C18: get_token never returns a TokenSet that has less than 60 seconds left
\* at the moment of the return, whichever path produced it.
C18_NeverBelowMargin ==
    gpc = "returned" => gResult.expires_at - now >= 60

\* C19: when a 200 refresh response omits refresh_token, the TokenSet that
\* refresh saves and returns carries the refresh token of the TokenSet passed
\* in; through successive refreshes that all omit it, the first one's refresh
\* token stays in the cache.
C19_RefreshTokenCarried ==
    rpc = "returned" =>
        /\ rPayload.refresh_token = Null =>
             /\ rResult.refresh_token = rTok.refresh_token
             /\ cache.json.refresh_token = rTok.refresh_token
        /\ rOmitted =>
             /\ rResult.refresh_token = rFirst.refresh_token
             /\ cache.json.refresh_token = rFirst.refresh_token

C19_Witness ==
    /\ rpc = "returned"
    /\ refreshCount = 3
    /\ rOmitted
    /\ rFirst.refresh_token = "RT0"
    /\ cache.json.refresh_token = "RT0"
    /\ cache.json.access_token = "AT2"

\* C20: after a successful refresh, refresh_token, id_token and token_type of
\* the saved and returned TokenSet are, each on its own, the provider's value
\* when the payload has one and the prior token's value otherwise; a rotated
\* refresh_token replaces the old one in the cache, and access_token is the
\* payload's.
C20_RefreshFieldMerge ==
    rpc = "returned" =>
        /\ \A k \in {"refresh_token", "id_token", "token_type"} :
             /\ cache.json[k] = (IF rPayload[k] # Null THEN rPayload[k] ELSE rTok[k])
             /\ rResult[k] = cache.json[k]
        /\ cache.json.access_token = rPayload.access_token
        /\ rResult.access_token = rPayload.access_token

C20_Witness ==
    /\ rpc = "returned"
    /\ rTok.refresh_token = "RT0"
    /\ rTok.id_token = "ID0"
    /\ rPayload.refresh_token = "RT2"
    /\ rPayload.id_token = Null
    /\ rPayload.token_type = "bearer"
    /\ cache.json.refresh_token = "RT2"
    /\ cache.json.id_token = "ID0"
    /\ cache.json.token_type = "bearer"

\* C21: a non-200 answer to the refresh request ends refresh after exactly one
\* request, with the cache file as it was; within one get_token call no
\* further refresh request follows the failed one.
C21_RefreshFailsOnce ==
    rError = "refresh_failed" =>
        /\ rpc = "raised"
        /\ refreshCount = 1
        /\ gpc # "refreshing" => lpc # "not_called"
        /\ lpc # "authorized" => cache = cache0

C21_Witness ==
    /\ rError = "refresh_failed"
    /\ gpc = "raised"
    /\ lpc = "denied"
    /\ refreshCount = 1
    /\ cache = cache0

----------------------------------------------------------------------------
\* Claims about the cache file

\* C22: for every TokenSet T, load_cache() after save_cache(T) returns a
\* TokenSet equal to T in each of the six fields, None fields included.
C22_CacheRoundTrip ==
    cpc = "loaded" =>
        /\ cLoaded # NoToken
        /\ \A k \in TokenKeys : cLoaded[k] = cTok[k]

C22_Witness ==
    /\ cpc = "loaded"
    /\ cTok.access_token = PyStr(<<34, 92>>)
    /\ cFile.access_token = <<34, 92, 34, 92, 92, 34>>
    /\ cTok.expires_at = PyNone
    /\ cLoaded.access_token = PyStr(<<34, 92>>)
    /\ cLoaded.refresh_token = PyNone

\* C23: while a save_cache has not completed its rename, crashed or not, the
\* cache path holds what it held when the save started: the complete earlier
\* cache, or nothing if there was none; it never holds partial content.
C23_CrashKeepsCache ==
    /\ CacheView \notin {"partial", "garbled"}
    /\ \A w \in writers :
         wpc[w] \in {"mkdir", "open", "write", "chmod", "replace", "crashed"}
            => CacheView = wBefore[w]

C23_Witness ==
    /\ wpc[1] = "crashed"
    /\ saves = 2
    /\ wBefore[1] = "T1"
    /\ CacheView = "T1"
    /\ fsPath["tmp"] # 0
    /\ inodes[fsPath["tmp"]].content = "partial"

\* C24: once a save_cache has completed, every file that holds token text, the
\* cache file and the temporary file of later saves, has mode 600.
C24_SecretsOwnerOnly ==
    savedOnce =>
        \A p \in {"cache", "tmp"} :
            (fsPath[p] # 0 /\ inodes[fsPath[p]].content \notin {"partial"})
                => inodes[fsPath[p]].mode = "600"

\* C26: with two save_cache calls interleaved on one cache path, the cache path
\* never holds partial content, and once both have ended it holds one of the
\* two complete TokenSets.
C26_ConcurrentSaves ==
    /\ CacheView \notin {"partial", "garbled"}
    /\ (saves = 2 /\ \A w \in Procs : wpc[w] \in {"done", "raised"})
          => CacheView \in {"T1", "T2"}

----------------------------------------------------------------------------
\* Claims about an unusable cache and a failed write

\* the cache file c is missing, cannot be read as a JSON object, or holds an
\* object whose expires_at is no number
CacheUnusable(c) ==
    \/ ~c.exists
    \/ "json" \notin DOMAIN c
    \/ ("expires_at" \in DOMAIN c.json /\ c.json.expires_at = BadExpiry)

\* C25: with a cache file that is missing, unreadable or no well-formed token
\* object, load_cache returns None and get_token does not fail on it: it sends
\* no refresh request and goes on to the device-code login.
C25_UnusableCacheLogsIn ==
    (gpc \notin {"not_called", "start"} /\ CacheUnusable(cache0)) =>
        /\ gTok = NoToken
        /\ rpc = "not_called"
        /\ lpc # "not_called"

\* C27: a save_cache that fails after a 200 refresh response ends get_token
\* with that failure; it does not start the device-code login.
C27_WriteFailureSurfaced ==
    rError = "save_raised" =>
        /\ lpc = "not_called"
        /\ gpc \in {"refreshing", "raised"}

----------------------------------------------------------------------------
\* Claims about the session-token stage and the configuration

\* the platform-user token the running script holds
PlatformUserToken ==
    IF prog = "get_xsts" THEN JsonToken(sXbl.body) ELSE JsonToken(xResult)

\* the platform-user exchange of the running script has returned 200
PlatformUserOk ==
    IF prog = "get_xsts"
    THEN sXbl # NoResp /\ sXbl.status = 200
    ELSE xpc = "returned" /\ resps # <<>> /\ resps[Len(resps)].status = 200

\* the session-token stage has been answered with a status other than 200
SessionFailed == sResp # NoResp /\ sResp.status # 200

\* the item x is part of the exception raised or of the output printed
Surfaced(x) ==
    \/ sError # NoExit /\ \E i \in DOMAIN sError.message : sError.message[i] = x
    \/ \E i \in DOMAIN sPrinted : sPrinted[i] = x

\* C28 (as written): a session-token stage answered with a status other than
\* 200 surfaces the response body with its failure.
C28_FailureIncludesBody ==
    SessionFailed => Surfaced([body |-> sResp.body])

\* C28 (amended): the session-token stage sends one request per invocation,
\* with sandbox RETAIL and the platform-user token as its only user token; a
\* status other than 200 ends the script with no further request, the status
\* is surfaced (in the exception of xsts_authorize, in the output of
\* get_xsts.py before its exit with code 1), and of the body only the first
\* 400 characters are printed, the exception holding none of it.
C28_SessionStageOnce ==
    /\ Len(sReqs) <= 1
    /\ \A i \in DOMAIN sReqs :
         /\ sReqs[i].SandboxId = "RETAIL"
         /\ sReqs[i].UserTokens = <<PlatformUserToken>>
    /\ sResp # NoResp => Len(sReqs) = 1
    /\ SessionFailed =>
         /\ spc \in {"raised", "exit"}
         /\ Surfaced([status |-> sResp.status])
         /\ Surfaced([body |-> [id |-> sResp.body.id,
                                len |-> IF sResp.body.len < 400
                                        THEN sResp.body.len ELSE 400]])
         /\ \A i \in DOMAIN sError.message :
              sError.message[i] # [body |-> sResp.body]
         /\ prog = "get_xsts" => sError.message = <<[code |-> 1]>>
         /\ prog = "xbox_tokens_device_code" =>
              sError.message[2] = [status |-> sResp.status]

C28_Witness ==
    /\ prog = "xbox_tokens_device_code"
    /\ spc = "raised"
    /\ SessionFailed
    /\ sResp.body.len = 401
    /\ Len(sReqs) = 1

\* C29: the authorization header exists only after the platform-user exchange
\* and then the session-token request returned 200; the session-token request
\* is sent only after the platform-user exchange returned 200; the header is
\* "XBL3.0 x=" followed by the uhs claim, ";" and the Token of the
\* session-token response; a script that failed produced no header and no
\* output file.
C29_HeaderAfterBothStages ==
    /\ sReqs # <<>> => PlatformUserOk
    /\ sOut # NoOutput =>
         /\ PlatformUserOk
         /\ sResp # NoResp /\ sResp.status = 200
         /\ sOut.authorization_header =
              <<"XBL3.0 x=",
                <<"uhs", IF prog = "get_xsts" THEN sXbl.body ELSE xResult>>,
                ";", <<"Token", sResp.body>>>>
    /\ spc \in {"raised", "exit"} => sOut = NoOutput
    /\ (sXbl # NoResp /\ sXbl.status # 200) => sReqs = <<>>
    /\ xpc = "raised" => sReqs = <<>>

C29_Witness ==
    /\ prog = "xbox_tokens_device_code"
    /\ spc = "done"
    /\ sOut # NoOutput
    /\ Len(sent) > 1

\* the environment value v is unset or holds nothing but blanks
Blank(v) == v = None \/ \A i \in DOMAIN v : v[i] \in {9, 10, 32}

\* no request has been sent and the cache has been neither read nor written
NothingDone ==
    /\ gpc = "not_called" /\ lpc = "not_called" /\ rpc = "not_called"
    /\ refreshCount = 0 /\ lresps = <<>>
    /\ gTok = NoToken
    /\ sXblReqs = <<>> /\ sReqs = <<>>

\* C30: with MS_CLIENT_ID unset or blank ms_oauth_cache.py stops with an
\* error, having sent no request and left the cache alone; with
\* MSA_ACCESS_TOKEN unset or blank get_xsts.py stops before any exchange
\* request.
C30_ConfigCheckedFirst ==
    /\ [] ( (prog = "ms_oauth_cache" /\ Blank(sEnv.MS_CLIENT_ID)) =>
              /\ spc \in {"start", "exit"}
              /\ spc = "exit" => sError.kind = "SystemExit"
              /\ NothingDone )
    /\ [] ( (prog = "get_xsts" /\ Blank(sEnv.MSA_ACCESS_TOKEN)) =>
              /\ spc \in {"start", "exit"}
              /\ spc = "exit" => sError.kind = "SystemExit"
              /\ NothingDone )
    /\ [][ (prog = "ms_oauth_cache" /\ Blank(sEnv.MS_CLIENT_ID)) =>
              cache' = cache ]_vars

C30_Witness ==
    /\ prog = "ms_oauth_cache"
    /\ sEnv.MS_CLIENT_ID = <<32>>
    /\ spc = "exit"

----------------------------------------------------------------------------
\* Claims about printed tokens, poll spacing, expiry, and termination

\* C31: the session token is never part of what a script prints, whether it
\* ends with the header or with a failure.
C31_NoTokenPrinted ==
    (sResp # NoResp /\ sResp.status = 200) =>
        \A i \in DOMAIN sPrinted :
            /\ sPrinted[i] # [token |-> <<"Token", sResp.body>>]
            /\ sPrinted[i] #
                 [header |-> <<"XBL3.0 x=",
                               <<"uhs", IF prog = "get_xsts" THEN sXbl.body
                                        ELSE xResult>>,
                               ";", <<"Token", sResp.body>>>>]

\* C32: every poll of msal.py is preceded by a sleep: while a poll is in
\* flight the script has slept once more than it has received poll answers.
C32_PollAfterSleep ==
    mpc = "await" => Len(mWaits) > Len(mResps)

\* C33: a TokenSet written to the cache by device_code_login or by refresh
\* has expires_at equal to the time the token response was processed plus the
\* expires_in of the response, which is no earlier than the time of the save
\* when expires_in is not negative.
C33_ExpiresAtAbsolute ==
    /\ rpc = "returned" =>
         /\ cache.json.expires_at = now + rPayload.expires_in
         /\ rPayload.expires_in >= 0 => cache.json.expires_at >= now
    /\ lpc = "authorized" =>
         /\ \E e \in {30, 3600} : cache.json.expires_at = now + e
         /\ cache.json.expires_at >= now
         /\ lastPollAt + lastLatency = now

C33_Witness ==
    /\ lpc = "authorized"
    /\ refreshCount = 1
    /\ now >= MaxInterval
    /\ cache.json.expires_at = now + 30

\* C34: when get_token has returned, by whichever path, the cache file reads
\* back as the TokenSet that was returned, field for field.
C34_CacheIsReturned ==
    gpc = "returned" =>
        /\ cache.exists
        /\ "json" \in DOMAIN cache
        /\ load_cache(cache) = gResult
        /\ \A k \in {"access_token", "refresh_token", "id_token", "expires_at",
                     "scope", "token_type"} : Get(cache.json, k) = gResult[k]

C34_Witness ==
    /\ gpc = "returned"
    /\ gMode = "refreshed"
    /\ cache # cache0
    /\ gResult.access_token = "AT2"
    /\ cache.json.access_token = "AT2"

\* C35: device_code_login ends whatever the token endpoint answers, and it
\* never sends more polls than ceil(expires_in / interval), with the interval
\* of the device-code response.
C35_LoginTerminates ==
    /\ <>(lpc \in {"authorized", "denied", "expired", "dc_failed",
                   "save_failed"})
    /\ [](lpc \notin {"start", "dc_failed"} =>
             /\ interval0 >= 1
             /\ Len(sleeps) <= (expiresIn + interval0 - 1) \div interval0
             /\ Len(lresps) <= Len(sleeps))

C35_Witness ==
    /\ lpc = "expired"
    /\ interval0 = 1
    /\ expiresIn = MaxInterval + 1
    /\ Len(lresps) = 2
    /\ lresps[1] = "slow_down"
    /\ lresps[2] = "authorization_pending"

\* the cache file c holds a token object without an access token, or without
\* an expires_at (absent, null or zero)
LacksField(c) ==
    /\ c.exists
    /\ "json" \in DOMAIN c
    /\ \/ Get(c.json, "access_token") \in {Null, ""}
       \/ "expires_at" \notin DOMAIN c.json
       \/ c.json.expires_at \in {0, NoExpiry}

\* C36: a cached token without an access token or without an expires_at is
\* never returned with "cached_access"; get_token refreshes it when it has a
\* refresh token and goes to the device login otherwise.
C36_IncompleteNeverValid ==
    (gpc \notin {"not_called", "start"} /\ LacksField(cache0)) =>
        /\ gMode # "cached_access"
        /\ HoldsRefreshToken(cache0) => rpc # "not_called" /\ refreshCount <= 1
        /\ ~HoldsRefreshToken(cache0) =>
             /\ rpc = "not_called" /\ refreshCount = 0
             /\ lpc # "not_called"

C36_Witness ==
    /\ gpc = "returned"
    /\ gMode = "refreshed"
    /\ cache0.json.access_token = Null
    /\ cache0.json.expires_at = 2 * skew_seconds
    /\ cache0.json.refresh_token = "RT0"
    /\ gStart = 0

\* C37: refresh called on a TokenSet whose refresh_token is None or empty
\* raises without a request to the token endpoint and without a write of the
\* cache; and while refresh runs, the TokenSet it was given stays as it is.
C37_RefreshNeedsRefreshToken ==
    /\ [](rFirst.refresh_token \in {Null, ""} =>
             /\ rpc \in {"start", "raised"}
             /\ refreshCount = 0
             /\ cache = [exists |-> TRUE, json |-> to_json(rFirst)]
             /\ rResult = NoToken
             /\ rpc = "raised" => rError = "no_refresh_token")
    /\ [](rError = "no_refresh_token" => rTok.refresh_token \in {Null, ""})
    /\ [][ (rpc \in {"start", "await"}) => rTok' = rTok ]_vars

C37_Witness ==
    /\ rpc = "raised"
    /\ rError = "no_refresh_token"
    /\ rTok.refresh_token = ""
    /\ refreshCount = 0

====
